---- MODULE Spec2Model ----
(***************************************************************************)
(* The AWS importer of hashr: AwsImage.Preprocess and its phases copy,     *)
(* generate, download and cleanup (src/unnamed/part_002, latest revision,  *)
(* lines 383-857) over the awsHashR client (src/importers/aws/aws_hashr.go)*)
(* and the EC2 control plane and worker host they talk to.                 *)
(***************************************************************************)
EXTENDS Naturals, Integers, Sequences, FiniteSets, TLC

VARIABLES
    a,      \* the AwsImage receiver: its fields
    ec2,    \* the control plane: the run's copied image, volume and attachment
    host,   \* the worker EC2 instance: its /dev/sd* devices and the .done marker
    pc,     \* position of the single workflow instance inside Preprocess
    i,      \* loop counter of the polling loop the instance is in
    h,      \* history of the current Preprocess invocation (observation only)
    cl,     \* the last call a direct caller of the client made, and what it met
    two,    \* two workflow instances allocating and attaching on one host
    fn,     \* a direct call of a helper function of the client and its result
    q,      \* AwsImage instances whose quick hash is asked for
    ahashr, \* the package variable ahashr: the client every instance uses
    repos,  \* the Repo objects created, and the client their instances met
    ssh     \* the sessions of the remote-shell client and the callers' commands

vars == <<a, ec2, host, pc, i, h, cl, two, fn, q, ahashr, repos, ssh>>

\* The variables the single workflow instance does not touch.
others == <<cl, two, fn, q, ahashr, repos, ssh>>

\* The variables outside the workflow, the client calls and the helper calls.
rest == <<q, ahashr, repos, ssh>>

\* The variables of the workflow instance itself.
workflow == <<a, pc, i, h>>

(***************************************************************************)
(* Bounds of the model.                                                    *)
(***************************************************************************)
MaxWait == 2        \* largest maxWaitDuration an instance is configured with
MaxRuns == 2        \* Preprocess invocations on the one AwsImage
MaxMappings == 2    \* block-device mappings of the image

(***************************************************************************)
(* Identifiers.                                                            *)
(***************************************************************************)
UnboundVolume == "vol-ffffffff"     \* part_002:713
BoundVolume   == "vol-bound"        \* a volume the snapshot is bound to
InstanceId    == "i-hashr"          \* ahashr.instanceId
OtherInstance == "i-other"          \* any other EC2 instance
FallbackDevice == "/dev/sdh"        \* aws_hashr.go:527

deviceIds == <<"i", "j", "k", "l", "m", "n", "o", "p", "q", "r", "s", "t", "u", "v", "w", "x", "y", "z">>

DeviceName(deviceId) == "/dev/sd" \o deviceId

AllDeviceNames == {DeviceName(deviceIds[k]) : k \in 1..Len(deviceIds)}

ImageName(n) == "ami-" \o ToString(n)

Region     == "us-east-1a"          \* ahashr.region (aws_hashr.go:83)
RemotePath == "/data"               \* r.remotePath
BucketName == "bucket-x"            \* r.bucketName
LocalPath == "/local"               \* r.localPath

\* 598: archiveName of the instance DiscoverRepo builds for an image.
ArchiveName(imageId) == imageId \o "-raw.dd.gz"

\* The snapshot and the declared size (GB) of the image's k-th mapping.
MappingSnapshot(k) == "snap-" \o ToString(k)

MappingSize(k) == 8 * k

VolumeName(n) == "vol-" \o ToString(n)

(***************************************************************************)
(* The history record: what the current invocation of Preprocess did.      *)
(***************************************************************************)
NoWait == [kind |-> "", budget |-> 0, checks |-> 0, seen |-> FALSE, slept |-> TRUE,
           backToBack |-> FALSE, outcome |-> ""]

NewHistory(n) ==
    [run     |-> n,          \* number of this invocation on the instance
     phases  |-> <<>>,       \* phase functions entered, in order
     ops     |-> <<>>,       \* operations issued, in order (repeated polls once)
     result  |-> "none",     \* "none" while running, then "ok" or "error"
     errPhase |-> "",        \* the phase whose function returned the error
     wrap    |-> "",         \* the phase the returned error message names
     created |-> {},         \* resources this invocation created
     cause   |-> "",         \* the answer that made a cleanup step fail
     firstImageId |-> "",    \* first non-empty value a.imageId was given
     resolved |-> FALSE,     \* generate has resolved the volume of the snapshot
     getSnapshot |-> <<>>,   \* the arguments of the GetSnapshot calls
     createVolume |-> <<>>,  \* the arguments of the CreateVolume calls
     attach  |-> <<>>,       \* the arguments of the AttachVolume calls
     archive |-> <<>>,       \* the archive commands run, and what they met
     copied  |-> "",         \* the identifier CopyImage returned in this run
     detach  |-> <<>>,       \* the arguments of the DetachVolume calls
     deleteVolume |-> <<>>,  \* the arguments of the DeleteVolume calls
     deregister |-> <<>>,    \* the arguments of the DeregisterImage calls
     download |-> <<>>,      \* the DownloadImage calls, and the destination file
     markerThere |-> FALSE,  \* the marker was on the host when its wait ended well
     wait    |-> NoWait,     \* the polling loop in progress
     lastWait |-> NoWait]    \* the polling loop that finished last

Log(hh, op) ==
    IF Len(hh.ops) > 0 /\ hh.ops[Len(hh.ops)] = op THEN hh
    ELSE [hh EXCEPT !.ops = Append(@, op)]

Create(hh, kind) == [hh EXCEPT !.created = @ \cup {kind}]

Cause(hh, answer) == [hh EXCEPT !.cause = answer]

(***************************************************************************)
(* Polling loops: for i := 0; i < budget; i++.                             *)
(***************************************************************************)
\* An iteration that does not use up an attempt.
sameAttempt(attempt) == attempt

\* i++ of the polling loops.
nextAttempt(attempt) == attempt + 1

\* The loop over `kind` starts with an attempt budget of `budget` checks.
BeginWait(hh, kind, budget) ==
    [hh EXCEPT !.wait = [NoWait EXCEPT !.kind = kind, !.budget = budget]]

\* One check of the awaited condition: `seen` is whether it was found true,
\* `before` whether the iteration slept before the check and `after` whether
\* it sleeps after it.
Check(hh, seen, before, after) ==
    [hh EXCEPT !.wait.checks = IF @ > 2 * MaxWait THEN @ ELSE @ + 1,
               !.wait.seen = seen,
               !.wait.backToBack = @ \/ (hh.wait.checks > 0 /\ ~hh.wait.slept /\ ~before),
               !.wait.slept = after]

EndWait(hh, outcome) ==
    [hh EXCEPT !.lastWait = [hh.wait EXCEPT !.outcome = outcome], !.wait = NoWait]

(***************************************************************************)
(* Preprocess (part_002:613-640): the four phase functions in sequence;    *)
(* the first error is wrapped and returned.                                *)
(***************************************************************************)
PhaseOrder == <<"copy", "generate", "download", "cleanup">>

PhaseEntry(phase) ==
    CASE phase = "copy"     -> "copy"
      [] phase = "generate" -> "generate"
      [] phase = "download" -> "download"
      [] phase = "cleanup"  -> "cleanup"

PhaseIndex(phase) == CHOOSE k \in 1..Len(PhaseOrder) : PhaseOrder[k] = phase

\* The error message Preprocess wraps a failure of `phase` in (615-636).
WrapOf(phase) ==
    CASE phase = "copy"     -> "error copying image"
      [] phase = "generate" -> "error generating disk archive"
      [] phase = "download" -> "error downloading disk archive"
      [] phase = "cleanup"  -> "error deleting the archive"

\* The operation an error message of Preprocess speaks of.
WrapNames(text) ==
    CASE text = "error copying image"            -> "copy"
      [] text = "error generating disk archive"  -> "generate"
      [] text = "error downloading disk archive" -> "download"
      [] text = "error deleting the archive"     -> "delete the archive from the bucket"
      [] OTHER                                   -> ""

\* The fields of the instance the message of `phase` is formatted with
\* (615, 619, 623, 636); archiveName starts with sourceImageId (598).
WrapCarries(phase) ==
    CASE phase = "copy"     -> {"sourceImageId"}
      [] phase = "generate" -> {"sourceImageId"}
      [] phase = "download" -> {"archiveName", "bucketName"}
      [] phase = "cleanup"  -> {"archiveName", "bucketName"}

\* Where Preprocess goes when the function of `phase` has returned.
PreprocessSkipsGenerate(phase, err) ==
    IF err THEN "idle"
    ELSE IF phase = "copy" THEN PhaseEntry("download")
    ELSE IF PhaseIndex(phase) = Len(PhaseOrder) THEN "idle"
    ELSE PhaseEntry(PhaseOrder[PhaseIndex(phase) + 1])

PreprocessIgnoresError(phase, err) ==
    IF PhaseIndex(phase) = Len(PhaseOrder) THEN "idle"
    ELSE PhaseEntry(PhaseOrder[PhaseIndex(phase) + 1])

PreprocessAfter(phase, err) ==
    IF err THEN "idle"
    ELSE IF PhaseIndex(phase) = Len(PhaseOrder) THEN "idle"
    ELSE PhaseEntry(PhaseOrder[PhaseIndex(phase) + 1])

\* The value Preprocess returns once it is back at "idle" after `phase`.
PreprocessResult(phase, err) ==
    IF err THEN "error" ELSE "ok"

Enter(hh, phase) == [hh EXCEPT !.phases = Append(@, phase)]

\* The history after the function of `phase` returned (err: with an error).
Returned(hh, phase, err) ==
    LET next == PreprocessAfter(phase, err)
        h1 == IF err /\ hh.errPhase = "" THEN [hh EXCEPT !.errPhase = phase] ELSE hh
    IN  IF next = "idle"
        THEN [h1 EXCEPT !.result = PreprocessResult(phase, err),
                        !.wrap = IF err THEN WrapOf(phase) ELSE ""]
        ELSE Enter(h1, next)

\* A phase function returns: control and history move together.
Return(hh, phase, err) ==
    /\ pc' = PreprocessAfter(phase, err)
    /\ h' = Returned(hh, phase, err)
    /\ i' = 0

\* No direct call of the client has been made.
NoCall == [op |-> "", answer |-> "", err |-> FALSE, again |-> FALSE, removed |-> {},
           device |-> "", calls |-> 0]

\* No pair of concurrent workflow instances is running.
NoInstances == [pc |-> <<"off", "off">>, deviceName |-> <<"", "">>,
                att |-> <<"none", "none">>, i |-> <<0, 0>>, clash |-> FALSE]

\* No helper function of the client has been called directly.
NoProbe ==
    [op |-> "", used |-> {}, sshErr |-> FALSE, name |-> "", err |-> FALSE,
     attachments |-> {}, target |-> "", i |-> 0, answer |-> {}, queryErr |-> FALSE,
     result |-> "", id |-> "", matches |-> <<>>,
     detail |-> [ok |-> FALSE, item |-> [Id |-> "", Rev |-> 0], err |-> ""],
     volume |-> [id |-> "", state |-> "none", snapshotId |-> ""],
     observed |-> <<>>,
     ret |-> [done |-> FALSE, volumeId |-> "", err |-> ""],
     budget |-> 0, results |-> <<>>, request |-> "",
     earlier |-> [pc |-> "idle", i |-> 0, image |-> "nil", aImageId |-> "",
                  aImage |-> "nil", ret |-> "none"],
     later |-> [pc |-> "idle", i |-> 0, image |-> "nil", aImageId |-> "",
                aImage |-> "nil", ret |-> "none"]]

\* No instance has been asked for its quick hash.
NoDescriptor == [ImageId |-> "", CreationDate |-> "", DeprecationTime |-> "", Name |-> ""]

NoImage == [built |-> FALSE, sourceImageId |-> "", resolved |-> FALSE,
            sourceImage |-> NoDescriptor, quickSha256hash |-> ""]

NoHash == [hash |-> "", end |-> "none"]

NoImages == [img |-> <<NoImage, NoImage>>, out |-> <<NoHash, NoHash>>,
             prev |-> <<NoHash, NoHash>>]

\* 547-558: the client NewRepo set up for the worker instance.
FirstClient == [handle |-> 1, instanceId |-> InstanceId, sshclient |-> 1]

\* The Repo that built the instance, and no call of an instance seen yet.
NoUse == [op |-> "", handle |-> 0, instanceId |-> "", sshclient |-> 0]

\* DiscoverRepo has not been called on the Repo.
NoScan == [pc |-> "idle", osName |-> <<>>, listed |-> <<>>, reqErr |-> FALSE,
           perIteration |-> FALSE, images |-> <<>>, k |-> 0, cells |-> <<>>,
           sources |-> <<>>, ret |-> [done |-> FALSE, n |-> 0, err |-> ""]]

FirstRepo == [made |-> <<FirstClient>>, used |-> <<NoUse>>, scan |-> NoScan]

\* The remote-shell client has no session and no caller is in a command.
NoReturn == [done |-> FALSE, status |-> 0, out |-> "", err |-> ""]

NoSessions == [open |-> {}, made |-> 0, ran |-> <<>>, calls |-> 0,
               pc |-> <<"idle", "idle">>, cur |-> <<0, 0>>,
               opened |-> <<0, 0>>, ret |-> <<NoReturn, NoReturn>>]

(***************************************************************************)
(* Construction: DiscoverRepo (part_002:594-603) and NewAwsImage build the *)
(* instance; the control plane holds the source image and its snapshot.    *)
(***************************************************************************)
\* The source image: resolved, or without identifier, or without descriptor.
Sources ==
    {[sourceImageId |-> "ami-src", sourceImage |-> "desc"],
     [sourceImageId |-> "", sourceImage |-> "desc"],
     [sourceImageId |-> "ami-src", sourceImage |-> "nil"]}

\* The first snapshot's volume: none (the sentinel), or a volume that is free,
\* or a volume that is attached to some other instance.
Snapshots ==
    {[snapshotVolume |-> UnboundVolume, volId |-> "", vol |-> "none",
      attState |-> "none", attHost |-> "", attDevice |-> ""],
     [snapshotVolume |-> BoundVolume, volId |-> BoundVolume, vol |-> "available",
      attState |-> "none", attHost |-> "", attDevice |-> ""],
     [snapshotVolume |-> BoundVolume, volId |-> BoundVolume, vol |-> "in-use",
      attState |-> "attached", attHost |-> OtherInstance, attDevice |-> "/dev/sdf"]}

\* The /dev/sd* devices of the worker host before the workflow attaches any.
HostDevices == {{"/dev/sda"}, {"/dev/sda", DeviceName("i")}, {"/dev/sda"} \cup AllDeviceNames}

Init ==
    /\ \E mw \in 0..MaxWait, src \in Sources :
         a = [imageId |-> "", image |-> "nil", volumeId |-> "", deviceName |-> "",
              sourceImageId |-> src.sourceImageId, sourceImage |-> src.sourceImage,
              archiveName |-> ArchiveName(src.sourceImageId),
              remotePath |-> RemotePath, bucketName |-> BucketName,
              localPath |-> LocalPath,
              maxWaitDuration |-> mw]
    /\ \E nm \in {0, 1, MaxMappings}, snap \in Snapshots :
         ec2 = [img |-> "none",           \* state of the image a.imageId names
                mappings |-> nm,          \* block-device mappings of the image
                snapshotVolume |-> snap.snapshotVolume,
                volId |-> snap.volId,     \* the volume this run resolved
                vol |-> snap.vol,         \* its state
                attState |-> snap.attState, attHost |-> snap.attHost,
                attDevice |-> snap.attDevice,
                copies |-> 0, volumes |-> 0]
    /\ \E used \in HostDevices :
         host = [devices |-> used, marker |-> FALSE, archiving |-> FALSE]
    /\ pc = "idle"
    /\ i = 0
    /\ h = NewHistory(0)
    /\ cl = NoCall
    /\ two = NoInstances
    /\ fn = NoProbe
    /\ q = NoImages
    /\ ahashr = FirstClient
    /\ repos = FirstRepo
    /\ ssh = NoSessions

(***************************************************************************)
(* Preprocess is invoked on the instance (again, after it returned).       *)
(***************************************************************************)
Preprocess ==
    /\ pc = "idle"
    /\ h.run < MaxRuns
    /\ pc' = PhaseEntry("copy")
    /\ i' = 0
    /\ h' = Enter([NewHistory(h.run + 1) EXCEPT !.firstImageId = h.firstImageId], "copy")
    /\ UNCHANGED <<a, ec2, host>>
    /\ UNCHANGED others

(***************************************************************************)
(* The awsHashR client (aws_hashr.go) as used by generate and cleanup.     *)
(***************************************************************************)
\* The answers of the control plane to a request that changes a resource:
\* "ok" when it carries the request out; "Gone" when the resource named is
\* not there (any more); "Rejected" when it is there in a state that forbids
\* the request; "RequestError" when the request itself fails.
Ec2Answers(accepted, gone) ==
    {"RequestError"} \cup {IF accepted THEN "ok" ELSE IF gone THEN "Gone" ELSE "Rejected"}

\* 183-200: CopyImage returns an error when the request does.
CopyImage(answer) == answer # "ok"

\* 203-217: DeregisterImage returns an error when the request does.
DeregisterImage(answer) == answer # "ok"

\* 306-320: DeleteVolume returns an error when the request does.
DeleteVolume(answer) == answer # "ok"

\* 369-386: AttachVolume returns an error when the request does.
AttachVolume(answer) == answer # "ok"

\* 389-404: DetachVolume returns an error when the request does.
DetachVolume(answer) == answer # "ok"

(***************************************************************************)
(* copy (part_002:642-688).                                                *)
(***************************************************************************)
\* A precondition that looks at the identifier only.
sourceMissingIdOnly(sourceImageId, sourceImage) == sourceImageId = ""

\* 644-650: the source identifier is empty or the source descriptor is nil.
sourceMissing(sourceImageId, sourceImage) == sourceImageId = "" \/ sourceImage = "nil"

\* 644-655: the preconditions, then GetAvailabilityZoneRegion.
copy ==
    /\ pc = "copy"
    /\ IF sourceMissing(a.sourceImageId, a.sourceImage)
       THEN Return(h, "copy", TRUE)
       ELSE \E regionErr \in BOOLEAN :
              IF regionErr
              THEN Return(Log(h, "GetAvailabilityZoneRegion"), "copy", TRUE)
              ELSE /\ pc' = "copy_image"
                   /\ h' = Log(h, "GetAvailabilityZoneRegion")
                   /\ i' = 0
    /\ UNCHANGED <<a, ec2, host>>
    /\ UNCHANGED others

\* 659-665: CopyImage, a.imageId = imageId, then the loop is entered.
copyImage ==
    /\ pc = "copy_image"
    /\ \E answer \in Ec2Answers(TRUE, FALSE) :
         IF CopyImage(answer)
         THEN /\ Return(Log(h, "CopyImage"), "copy", TRUE)
              /\ UNCHANGED <<a, ec2>>
         ELSE LET id == ImageName(ec2.copies + 1)
                  h1 == Create(Log(h, "CopyImage"), "image")
                  h2 == [h1 EXCEPT !.copied = id,
                                   !.firstImageId = IF @ = "" THEN id ELSE @]
              IN  /\ a' = [a EXCEPT !.imageId = id]
                  /\ ec2' = [ec2 EXCEPT !.copies = @ + 1, !.img = "pending"]
                  /\ pc' = "copy_wait"
                  /\ i' = 0
                  /\ h' = BeginWait(h2, "image", a.maxWaitDuration)
    /\ UNCHANGED host
    /\ UNCHANGED others

\* What DescribeImages answers for a.imageId: an error, or the image's state.
ImageAnswers == {"error"} \cup (IF ec2.img \in {"pending", "available"} THEN {ec2.img} ELSE {})

\* 667-679: one iteration of the loop: GetImageDetail(a.imageId).
copyWait ==
    /\ pc = "copy_wait"
    /\ i < a.maxWaitDuration
    /\ \E ans \in ImageAnswers :
         LET h1 == Check(Log(h, "GetImageDetail"), ans = "available", TRUE, FALSE)
         IN  CASE ans = "error" ->
                    /\ Return(EndWait(h1, "error"), "copy", TRUE)
                    /\ UNCHANGED a
               [] ans = "available" ->
                    /\ a' = [a EXCEPT !.image = a.imageId]
                    /\ pc' = "copy_check"
                    /\ i' = i
                    /\ h' = h1
               [] OTHER ->
                    /\ i' = nextAttempt(i)
                    /\ pc' = "copy_wait"
                    /\ h' = h1
                    /\ UNCHANGED a
    /\ UNCHANGED <<ec2, host>>
    /\ UNCHANGED others

\* 667: the loop condition fails: the attempt budget is used up.
copyWaitExhausted ==
    /\ pc = "copy_wait"
    /\ i >= a.maxWaitDuration
    /\ pc' = "copy_check"
    /\ UNCHANGED <<a, ec2, host, i, h>>
    /\ UNCHANGED others

\* 681-687: if a.image == nil the copy failed, else it succeeded.
copyCheck ==
    /\ pc = "copy_check"
    /\ IF a.image = "nil"
       THEN Return(EndWait(h, "timeout"), "copy", TRUE)
       ELSE Return(EndWait(h, "ok"), "copy", FALSE)
    /\ UNCHANGED <<a, ec2, host>>
    /\ UNCHANGED others


(***************************************************************************)
(* The device allocator and the two waits of the client (aws_hashr.go).    *)
(***************************************************************************)
\* A scan that returns the last free name of the alphabet instead of the first.
scanLastFit(k, usedDevices) ==
    LET free == {j \in k..Len(deviceIds) : DeviceName(deviceIds[j]) \notin usedDevices}
    IN  IF free = {} THEN [name |-> "", err |-> TRUE]
        ELSE [name |-> DeviceName(deviceIds[CHOOSE j \in free : \A m \in free : m <= j]),
              err |-> FALSE]

\* 531-545: the first device name of the alphabet that is not in use.
RECURSIVE scanDeviceIds(_, _)
scanDeviceIds(k, usedDevices) ==
    IF k > Len(deviceIds) THEN [name |-> "", err |-> TRUE]
    ELSE IF DeviceName(deviceIds[k]) \notin usedDevices
         THEN [name |-> DeviceName(deviceIds[k]), err |-> FALSE]
         ELSE scanDeviceIds(k + 1, usedDevices)

\* 523-546: sshErr is the failure of the remote listing command.
GetAvailableDeviceName(sshErr, usedDevices) ==
    IF sshErr THEN [name |-> FallbackDevice, err |-> FALSE]
    ELSE scanDeviceIds(1, usedDevices)

\* What DescribeVolumes answers for the run's volume: an error (also when the
\* volume is gone: zero matches), or the volume's state.
VolumeAnswers ==
    {"error"} \cup (IF ec2.vol \in {"creating", "available", "in-use", "deleting"}
                     THEN {ec2.vol} ELSE {})

\* 407-420: one iteration of waitForVolumeState at position `here`; on the
\* target state the function returns nil and control goes to `done`.
waitForVolumeState(here, targetState, done) ==
    /\ pc = here
    /\ i < a.maxWaitDuration
    /\ \E ans \in VolumeAnswers :
         LET h1 == Check(Log(h, "GetVolumeState"), ans = targetState, FALSE, ans = "error")
         IN  IF ans # "error" /\ ans = targetState
             THEN /\ pc' = done
                  /\ i' = 0
                  /\ h' = EndWait(h1, "ok")
             ELSE /\ pc' = here
                  /\ i' = nextAttempt(i)
                  /\ h' = h1
    /\ UNCHANGED <<a, ec2, host>>
    /\ UNCHANGED others

\* The attachments DescribeVolumes lists for the run's volume.
Attachments ==
    IF ec2.attState = "none" THEN {}
    ELSE {[State |-> ec2.attState, InstanceId |-> ec2.attHost]}

\* A scan that takes an attachment in the target state on any instance.
attachmentMatchesAnyHost(attachments, instanceId, targetState) ==
    \E attachment \in attachments : attachment.State = targetState

\* 437-442: does some attachment have the target state on the instance?
attachmentMatches(attachments, instanceId, targetState) ==
    \E attachment \in attachments :
        attachment.State = targetState /\ attachment.InstanceId = instanceId

(***************************************************************************)
(* generate (part_002:690-773).                                            *)
(***************************************************************************)
\* The mappings taken in reverse order.
snapshotIdsReversed(mappings) ==
    [k \in 1..mappings |-> MappingSnapshot(mappings + 1 - k)]

\* 691-695: the snapshot ids of the image's mappings, in their order.
snapshotIds(mappings) ==
    [k \in 1..mappings |-> MappingSnapshot(k)]

\* The declared sizes of the image's mappings, in their order.
volumeSizes(mappings) ==
    [k \in 1..mappings |-> MappingSize(k)]

\* The last entry of a list.
mappingLast(list) == list[Len(list)]

\* 699-700: snapshotIds[0], a.image.BlockDeviceMappings[0].
mappingZero(list) == list[1]

\* 693-710: the mappings of a.image, then GetSnapshot of the first one.
generate ==
    /\ pc = "generate"
    /\ IF Len(snapshotIds(ec2.mappings)) = 0
       THEN Return(h, "generate", TRUE)
       ELSE \E err \in BOOLEAN :
              LET snapshotId == mappingZero(snapshotIds(ec2.mappings))
                  h1 == [Log(h, "GetSnapshot") EXCEPT
                            !.getSnapshot = Append(@, snapshotId)]
              IN  IF err
                  THEN Return(h1, "generate", TRUE)
                  ELSE /\ pc' = "gen_volume"
                       /\ i' = 0
                       /\ h' = h1
    /\ UNCHANGED <<a, ec2, host>>
    /\ UNCHANGED others

\* 712-719: the snapshot's volume, or CreateVolume (aws_hashr.go:281-303) when
\* it is the sentinel. CreateVolume is rejected, or creates a volume that
\* reaches Available within its own wait, or one that does not.
generateVolume ==
    /\ pc = "gen_volume"
    /\ IF ec2.snapshotVolume = UnboundVolume
       THEN \E outcome \in {"rejected", "available", "stuck"} :
              LET id == VolumeName(ec2.volumes + 1)
                  snapshotId == mappingZero(snapshotIds(ec2.mappings))
                  volumeSize == mappingZero(volumeSizes(ec2.mappings))
                  h1 == [Log(h, "CreateVolume") EXCEPT
                            !.resolved = TRUE,
                            !.createVolume = Append(@, [snapshotId |-> snapshotId,
                                                        size |-> volumeSize,
                                                        zone |-> Region])]
                  fresh == [ec2 EXCEPT !.volumes = @ + 1, !.volId = id,
                                       !.attState = "none", !.attHost = "",
                                       !.attDevice = ""]
              IN  CASE outcome = "rejected" ->
                         /\ Return(h1, "generate", TRUE)
                         /\ UNCHANGED <<a, ec2>>
                    [] outcome = "stuck" ->
                         /\ Return(Create(h1, "volume"), "generate", TRUE)
                         /\ ec2' = [fresh EXCEPT !.vol = "creating"]
                         /\ UNCHANGED a
                    [] OTHER ->
                         /\ a' = [a EXCEPT !.volumeId = id]
                         /\ ec2' = [fresh EXCEPT !.vol = "available"]
                         /\ pc' = "gen_waitvol"
                         /\ i' = 0
                         /\ h' = BeginWait(Create(h1, "volume"), "volume", a.maxWaitDuration)
       ELSE /\ a' = [a EXCEPT !.volumeId = ec2.snapshotVolume]
            /\ pc' = "gen_waitvol"
            /\ i' = 0
            /\ h' = BeginWait([h EXCEPT !.resolved = TRUE], "volume", a.maxWaitDuration)
            /\ UNCHANGED ec2
    /\ UNCHANGED host
    /\ UNCHANGED others

\* 721: waitForVolumeState(volumeId, Available, a.maxWaitDuration).
generateWaitVolume == waitForVolumeState("gen_waitvol", "available", "gen_device")

\* 721-723: the wait timed out; the error is logged and generate goes on.
generateWaitVolumeTimeout ==
    /\ pc = "gen_waitvol"
    /\ i >= a.maxWaitDuration
    /\ pc' = "gen_device"
    /\ i' = 0
    /\ h' = EndWait(h, "timeout")
    /\ UNCHANGED <<a, ec2, host>>
    /\ UNCHANGED others

\* 725-728: a.deviceName, err = GetAvailableDeviceName().
generateDevice ==
    /\ pc = "gen_device"
    /\ \E sshErr \in BOOLEAN :
         LET got == GetAvailableDeviceName(sshErr, host.devices)
             h1 == Log(h, "GetAvailableDeviceName")
         IN  /\ a' = [a EXCEPT !.deviceName = got.name]
             /\ IF got.err
                THEN Return(h1, "generate", TRUE)
                ELSE /\ pc' = "gen_attach"
                     /\ i' = 0
                     /\ h' = h1
    /\ UNCHANGED <<ec2, host>>
    /\ UNCHANGED others

\* EC2 accepts an attachment of a free volume at a free device name.
AttachAccepted(device) ==
    /\ ec2.vol = "available"
    /\ ec2.attState = "none"
    /\ device \notin host.devices

VolumeGone == ec2.vol \in {"none", "deleted"}

ImageGone == ec2.img \in {"none", "gone"}

\* 730-732: AttachVolume(a.deviceName, ahashr.instanceId, a.volumeId).
generateAttach ==
    /\ pc = "gen_attach"
    /\ \E answer \in Ec2Answers(AttachAccepted(a.deviceName), VolumeGone) :
         LET h1 == [Log(h, "AttachVolume") EXCEPT
                       !.attach = Append(@, [deviceId |-> a.deviceName,
                                             instanceId |-> ahashr.instanceId,
                                             volumeId |-> a.volumeId])]
         IN  IF AttachVolume(answer)
             THEN /\ Return(h1, "generate", TRUE)
                  /\ UNCHANGED ec2
             ELSE /\ ec2' = [ec2 EXCEPT !.vol = "in-use", !.attState = "attaching",
                                        !.attHost = ahashr.instanceId,
                                        !.attDevice = a.deviceName]
                  /\ pc' = "gen_waitatt"
                  /\ i' = 0
                  /\ h' = BeginWait(Create(h1, "attachment"), "attachment", a.maxWaitDuration)
    /\ UNCHANGED <<a, host>>
    /\ UNCHANGED others

\* 429-445: one iteration of waitForAttachmentState(a.volumeId, instanceId, Attached).
generateWaitAttachment ==
    /\ pc = "gen_waitatt"
    /\ i < a.maxWaitDuration
    /\ \E err \in BOOLEAN :
         LET found == ~err /\ attachmentMatches(Attachments, ahashr.instanceId, "attached")
             h1 == Check(Log(h, "GetVolumeAttachment"), found, FALSE, ~found)
         IN  IF found
             THEN /\ pc' = "gen_archive"
                  /\ i' = 0
                  /\ h' = EndWait(h1, "ok")
             ELSE /\ pc' = "gen_waitatt"
                  /\ i' = nextAttempt(i)
                  /\ h' = h1
    /\ UNCHANGED <<a, ec2, host>>
    /\ UNCHANGED others

\* 447, 734-736: the attachment wait timed out.
generateWaitAttachmentTimeout ==
    /\ pc = "gen_waitatt"
    /\ i >= a.maxWaitDuration
    /\ Return(EndWait(h, "timeout"), "generate", TRUE)
    /\ UNCHANGED <<a, ec2, host>>
    /\ UNCHANGED others

\* filepath.Join of a directory and a file name.
Join(dir, name) == dir \o "/" \o name

\* The archive command with the device and the output path exchanged.
archiveCommandSwapped(deviceName, outputPath, bucketName) ==
    "/usr/local/sbin/hashr-archive " \o outputPath \o " " \o deviceName \o " " \o bucketName

\* 740: fmt.Sprintf("/usr/local/sbin/hashr-archive %s %s %s", ...).
archiveCommand(deviceName, outputPath, bucketName) ==
    "/usr/local/sbin/hashr-archive " \o deviceName \o " " \o outputPath \o " " \o bucketName

\* 738-744: the remote archive command.
generateArchive ==
    /\ pc = "gen_archive"
    /\ \E err \in BOOLEAN :
         LET outputPath == Join(a.remotePath, a.archiveName)
             sshcmd == archiveCommand(a.deviceName, outputPath, a.bucketName)
             h1 == [Log(h, "hashr-archive") EXCEPT
                       !.archive = Append(@, [cmd |-> sshcmd, err |-> err,
                                              outputPath |-> outputPath,
                                              bucketName |-> a.bucketName,
                                              attached |-> /\ ec2.attState = "attached"
                                                           /\ ec2.attHost = InstanceId,
                                              polls |-> Len(SelectSeq(h.ops, LAMBDA op : op = "ls"))])]
         IN  IF err
             THEN /\ Return(h1, "generate", TRUE)
                  /\ UNCHANGED host
             ELSE /\ host' = [host EXCEPT !.archiving = TRUE]
                  /\ pc' = "gen_marker"
                  /\ i' = 0
                  /\ h' = BeginWait(h1, "marker", 2 * a.maxWaitDuration)
    /\ UNCHANGED <<a, ec2>>
    /\ UNCHANGED others

\* A listing whose failure is taken for the marker.
outputGeneratedDespiteError(err, listed) == TRUE

\* 752-760: the listing succeeded and its output names the marker.
outputGenerated(err, listed) == ~err /\ listed

\* 749-764: one iteration of the marker loop: ls <outputPath>.done fails when
\* the file is absent, and lists it when it is there.
generateMarker ==
    /\ pc = "gen_marker"
    /\ i < 2 * a.maxWaitDuration
    /\ \E err \in {TRUE} \cup (IF host.marker THEN {FALSE} ELSE {}) :
         LET seen == outputGenerated(err, host.marker)
             h1 == Check(Log(h, "ls"), seen, FALSE, ~seen)
         IN  IF ~seen
             THEN /\ pc' = "gen_marker"
                  /\ i' = nextAttempt(i)
                  /\ h' = h1
             ELSE /\ Return(EndWait([h1 EXCEPT !.markerThere = host.marker], "ok"),
                            "generate", FALSE)
    /\ UNCHANGED <<a, ec2, host>>
    /\ UNCHANGED others

\* 766-768: outputGenerated is false after the loop.
generateMarkerTimeout ==
    /\ pc = "gen_marker"
    /\ i >= 2 * a.maxWaitDuration
    /\ Return(EndWait(h, "timeout"), "generate", TRUE)
    /\ UNCHANGED <<a, ec2, host>>
    /\ UNCHANGED others

(***************************************************************************)
(* download (part_002:775-786).                                            *)
(***************************************************************************)
\* What the local directory may hold at the destination before the call.
LocalFiles == {[exists |-> FALSE, data |-> ""], [exists |-> TRUE, data |-> "stale "]}

\* The object the downloader reads: Bucket and Key of GetObjectInput.
Object(bucketName, archiveName) == "s3://" \o bucketName \o "/" \o archiveName

\* The destination opened without truncation.
openFile(before, createErr) ==
    IF createErr THEN before ELSE [exists |-> TRUE, data |-> before.data]

\* aws_hashr.go:506: os.Create(outputFile) creates the file or truncates it.
createFile(before, createErr) ==
    IF createErr THEN before ELSE [exists |-> TRUE, data |-> ""]

\* aws_hashr.go:500-520: os.Create, then downloader.Download into the file.
DownloadImage(bucketName, archiveName, outputFile, before, createErr, transferErr) ==
    LET outFile == createFile(before, createErr)
    IN  [bucketName |-> bucketName, archiveName |-> archiveName,
         outputFile |-> outputFile, before |-> before,
         createErr |-> createErr, err |-> createErr \/ transferErr,
         after |-> IF createErr THEN outFile
                   ELSE [outFile EXCEPT !.data =
                            @ \o (IF transferErr THEN "part of " ELSE "")
                              \o Object(bucketName, archiveName)]]

\* 775-786
download ==
    /\ pc = "download"
    /\ \E before \in LocalFiles, createErr \in BOOLEAN, transferErr \in BOOLEAN :
         /\ createErr => ~transferErr
         /\ LET outputFile == Join(a.localPath, a.archiveName)
                call == DownloadImage(a.bucketName, a.archiveName, outputFile,
                                      before, createErr, transferErr)
                h1 == [Log(h, "DownloadImage") EXCEPT !.download = Append(@, call)]
            IN  Return(h1, "download", call.err)
    /\ UNCHANGED <<a, ec2, host>>
    /\ UNCHANGED others

(***************************************************************************)
(* cleanup (part_002:788-857).                                             *)
(***************************************************************************)
\* 633: Preprocess passes deleteBucketArchive := false.
deleteBucketArchive == FALSE

\* The steps of cleanup in program order.
cleanupOrder ==
    <<"cleanup", "cl_detach", "cl_waitvol", "cl_delvol", "cl_volgone", "cl_dereg",
      "cl_imggone", "cl_bucket">>

cleanupIndex(step) == CHOOSE k \in 1..Len(cleanupOrder) : cleanupOrder[k] = step

\* A cleanup that does not wait for the detached volume before deleting it.
cleanupSkipsVolumeWait(step) ==
    IF step = "cl_detach" THEN "cl_delvol" ELSE cleanupOrder[cleanupIndex(step) + 1]

\* The step cleanup goes to when `step` is done without an error.
cleanupAfter(step) == cleanupOrder[cleanupIndex(step) + 1]

\* A step of cleanup is done: with an error cleanup returns it, without one
\* cleanup goes on.
cleanupStep(hh, step, err) ==
    IF err
    THEN Return(hh, "cleanup", TRUE)
    ELSE /\ pc' = cleanupAfter(step)
         /\ i' = 0
         /\ h' = hh

\* 790-797: rm -f <remotePath>/<archiveName>.done on the instance.
cleanup ==
    /\ pc = "cleanup"
    /\ \E err \in BOOLEAN :
         /\ cleanupStep(IF err THEN Cause(Log(h, "rm"), "RequestError") ELSE Log(h, "rm"),
                        "cleanup", err)
         /\ host' = IF err THEN host ELSE [host EXCEPT !.marker = FALSE]
    /\ UNCHANGED <<a, ec2>>
    /\ UNCHANGED others

\* EC2 accepts detaching an attachment that is there.
DetachAccepted(device, instanceId) ==
    /\ ec2.attState \in {"attaching", "attached"}
    /\ ec2.attHost = instanceId
    /\ ec2.attDevice = device

\* The volume is gone or has no attachment to the instance (any more).
Detached(instanceId) ==
    \/ VolumeGone
    \/ ec2.attState \in {"none", "detaching"}
    \/ ec2.attHost # instanceId

\* 799-803: DetachVolume(a.deviceName, ahashr.instanceId, a.volumeId).
cleanupDetach ==
    /\ pc = "cl_detach"
    /\ \E answer \in Ec2Answers(DetachAccepted(a.deviceName, ahashr.instanceId),
                                 Detached(ahashr.instanceId)) :
         LET err == DetachVolume(answer)
             h1 == [Log(h, "DetachVolume") EXCEPT
                       !.detach = Append(@, [deviceId |-> a.deviceName,
                                             instanceId |-> ahashr.instanceId,
                                             volumeId |-> a.volumeId])]
         IN  /\ cleanupStep(IF err THEN Cause(h1, answer)
                            ELSE BeginWait(h1, "volume", a.maxWaitDuration),
                            "cl_detach", err)
             /\ ec2' = IF err THEN ec2 ELSE [ec2 EXCEPT !.attState = "detaching"]
    /\ UNCHANGED <<a, host>>
    /\ UNCHANGED others

\* 805: waitForVolumeState(a.volumeId, Available, a.maxWaitDuration).
cleanupWaitVolume == waitForVolumeState("cl_waitvol", "available", cleanupAfter("cl_waitvol"))

\* 805-807: the wait timed out and cleanup returns the error.
cleanupWaitVolumeTimeout ==
    /\ pc = "cl_waitvol"
    /\ i >= a.maxWaitDuration
    /\ cleanupStep(Cause(EndWait(h, "timeout"), IF VolumeGone THEN "Gone" ELSE "Timeout"),
                   "cl_waitvol", TRUE)
    /\ UNCHANGED <<a, ec2, host>>
    /\ UNCHANGED others

\* EC2 accepts deleting a volume that is there and not in use.
DeleteAccepted == ec2.vol = "available"

\* 809-813: DeleteVolume(a.volumeId).
cleanupDeleteVolume ==
    /\ pc = "cl_delvol"
    /\ \E answer \in Ec2Answers(DeleteAccepted, VolumeGone \/ ec2.vol = "deleting") :
         LET err == DeleteVolume(answer)
             h1 == [Log(h, "DeleteVolume") EXCEPT !.deleteVolume = Append(@, a.volumeId)]
         IN  /\ cleanupStep(IF err THEN Cause(h1, answer)
                            ELSE BeginWait(h1, "volume-gone", a.maxWaitDuration),
                            "cl_delvol", err)
             /\ ec2' = IF err THEN ec2 ELSE [ec2 EXCEPT !.vol = "deleting"]
    /\ UNCHANGED <<a, host>>
    /\ UNCHANGED others

\* exists(volume): an error, or whether the control plane still lists it.
VolumeExists ==
    {"error"} \cup {IF VolumeGone THEN "false" ELSE "true"}

\* exists(image): an error, or whether the control plane still lists it.
ImageExists ==
    {"error"} \cup {IF ImageGone THEN "false" ELSE "true"}

\* 815-826 and 834-846: one iteration of an existence poll at `step`.
existsPoll(step, op, answers) ==
    /\ pc = step
    /\ i < a.maxWaitDuration
    /\ \E ans \in answers :
         LET h1 == Check(Log(h, op), ans = "false", FALSE, ans = "true")
         IN  CASE ans = "error" ->
                    cleanupStep(Cause(EndWait(h1, "error"), "RequestError"), step, TRUE)
               [] ans = "false" -> cleanupStep(EndWait(h1, "ok"), step, FALSE)
               [] OTHER -> /\ pc' = step
                           /\ i' = nextAttempt(i)
                           /\ h' = h1
    /\ UNCHANGED <<a, ec2, host>>
    /\ UNCHANGED others

\* 815, 834: the loop condition fails; cleanup goes on to the statement after
\* the loop.
existsPollExhausted(step) ==
    /\ pc = step
    /\ i >= a.maxWaitDuration
    /\ cleanupStep(EndWait(h, "exhausted"), step, FALSE)
    /\ UNCHANGED <<a, ec2, host>>
    /\ UNCHANGED others

cleanupVolumeGone == existsPoll("cl_volgone", "VolumeExists", VolumeExists)

cleanupVolumeGoneExhausted == existsPollExhausted("cl_volgone")

\* EC2 accepts deregistering an image that is registered.
DeregisterAccepted == ec2.img \in {"pending", "available"}

\* 828-832: DeregisterImage(a.imageId).
cleanupDeregister ==
    /\ pc = "cl_dereg"
    /\ \E answer \in Ec2Answers(DeregisterAccepted, ImageGone \/ ec2.img = "deregistering") :
         LET err == DeregisterImage(answer)
             h1 == [Log(h, "DeregisterImage") EXCEPT !.deregister = Append(@, a.imageId)]
         IN  /\ cleanupStep(IF err THEN Cause(h1, answer)
                            ELSE BeginWait(h1, "image-gone", a.maxWaitDuration),
                            "cl_dereg", err)
             /\ ec2' = IF err THEN ec2 ELSE [ec2 EXCEPT !.img = "deregistering"]
    /\ UNCHANGED <<a, host>>
    /\ UNCHANGED others

cleanupImageGone == existsPoll("cl_imggone", "ImageExists", ImageExists)

cleanupImageGoneExhausted == existsPollExhausted("cl_imggone")

\* 848-856: the object-store delete when the flag asks for it, then return nil.
cleanupBucket ==
    /\ pc = "cl_bucket"
    /\ IF deleteBucketArchive
       THEN \E err \in BOOLEAN : Return(Log(h, "DeleteBucketImage"), "cleanup", err)
       ELSE Return(h, "cleanup", FALSE)
    /\ UNCHANGED <<a, ec2, host>>
    /\ UNCHANGED others

(***************************************************************************)
(* The control plane and the worker host act on their own.                 *)
(***************************************************************************)
\* The control plane finishes copying the image.
EnvImageAvailable ==
    /\ ec2.img = "pending"
    /\ ec2' = [ec2 EXCEPT !.img = "available"]
    /\ UNCHANGED <<workflow, host, others>>

\* An attachment completes: the device appears on the instance.
EnvAttached ==
    /\ ec2.attState = "attaching"
    /\ ec2' = [ec2 EXCEPT !.attState = "attached"]
    /\ host' = [host EXCEPT !.devices = @ \cup {ec2.attDevice}]
    /\ UNCHANGED <<workflow, others>>

\* The archive tool finishes and writes <outputPath>.done.
EnvArchiveDone ==
    /\ host.archiving
    /\ host' = [host EXCEPT !.archiving = FALSE, !.marker = TRUE]
    /\ UNCHANGED <<workflow, ec2, others>>

\* A detachment completes: the volume is free and the device is gone.
EnvDetached ==
    /\ ec2.attState = "detaching"
    /\ ec2' = [ec2 EXCEPT !.attState = "none", !.attHost = "", !.vol = "available"]
    /\ host' = [host EXCEPT !.devices = @ \ {ec2.attDevice}]
    /\ UNCHANGED <<workflow, others>>

\* A deleted volume disappears from the control plane.
EnvVolumeDeleted ==
    /\ ec2.vol = "deleting"
    /\ ec2' = [ec2 EXCEPT !.vol = "deleted"]
    /\ UNCHANGED <<workflow, host, others>>

\* A deregistered image disappears from the control plane.
EnvImageDeregistered ==
    /\ ec2.img = "deregistering"
    /\ ec2' = [ec2 EXCEPT !.img = "gone"]
    /\ UNCHANGED <<workflow, host, others>>

Next ==
    \/ Preprocess
    \/ copy
    \/ copyImage
    \/ copyWait
    \/ copyWaitExhausted
    \/ copyCheck
    \/ generate
    \/ generateVolume
    \/ generateWaitVolume
    \/ generateWaitVolumeTimeout
    \/ generateDevice
    \/ generateAttach
    \/ generateWaitAttachment
    \/ generateWaitAttachmentTimeout
    \/ generateArchive
    \/ generateMarker
    \/ generateMarkerTimeout
    \/ download
    \/ cleanup
    \/ cleanupDetach
    \/ cleanupWaitVolume
    \/ cleanupWaitVolumeTimeout
    \/ cleanupDeleteVolume
    \/ cleanupVolumeGone
    \/ cleanupVolumeGoneExhausted
    \/ cleanupDeregister
    \/ cleanupImageGone
    \/ cleanupImageGoneExhausted
    \/ cleanupBucket
    \/ EnvImageAvailable
    \/ EnvAttached
    \/ EnvArchiveDone
    \/ EnvDetached
    \/ EnvVolumeDeleted
    \/ EnvImageDeregistered

Spec == Init /\ [][Next]_vars

(***************************************************************************)
(* The workflow keeps running: every call it makes returns, so the         *)
(* instance takes its next step whenever it is inside Preprocess.          *)
(***************************************************************************)
WorkflowNext ==
    \/ copy \/ copyImage \/ copyWait \/ copyWaitExhausted \/ copyCheck
    \/ generate \/ generateVolume \/ generateWaitVolume \/ generateWaitVolumeTimeout
    \/ generateDevice \/ generateAttach \/ generateWaitAttachment
    \/ generateWaitAttachmentTimeout \/ generateArchive \/ generateMarker
    \/ generateMarkerTimeout \/ download
    \/ cleanup \/ cleanupDetach \/ cleanupWaitVolume \/ cleanupWaitVolumeTimeout
    \/ cleanupDeleteVolume \/ cleanupVolumeGone \/ cleanupVolumeGoneExhausted
    \/ cleanupDeregister \/ cleanupImageGone \/ cleanupImageGoneExhausted
    \/ cleanupBucket

\* A source image that passes the preconditions of copy and has one mapping,
\* on a host with a free device name: the runs that reach every wait.
InitLive ==
    /\ Init
    /\ ~sourceMissing(a.sourceImageId, a.sourceImage)
    /\ ec2.mappings = 1
    /\ host.devices = {"/dev/sda"}

SpecLive == InitLive /\ [][Next]_vars /\ WF_vars(WorkflowNext)

(***************************************************************************)
(* Somebody else removes a resource while cleanup is under way: another    *)
(* operator or process detaches or deletes the volume, deregisters the     *)
(* image or removes the marker file before the step of cleanup that would. *)
(***************************************************************************)
InCleanup == pc \in {cleanupOrder[k] : k \in 1..Len(cleanupOrder)}

ExtRemoveMarker ==
    /\ InCleanup
    /\ host.marker
    /\ host' = [host EXCEPT !.marker = FALSE]
    /\ UNCHANGED <<workflow, ec2, others>>

ExtDetachVolume ==
    /\ InCleanup
    /\ ec2.attState = "attached"
    /\ ec2' = [ec2 EXCEPT !.attState = "none", !.attHost = "", !.vol = "available"]
    /\ host' = [host EXCEPT !.devices = @ \ {ec2.attDevice}]
    /\ UNCHANGED <<workflow, others>>

ExtDeleteVolume ==
    /\ InCleanup
    /\ ec2.vol = "available"
    /\ ec2' = [ec2 EXCEPT !.vol = "deleted"]
    /\ UNCHANGED <<workflow, host, others>>

ExtDeregisterImage ==
    /\ InCleanup
    /\ ec2.img = "available"
    /\ ec2' = [ec2 EXCEPT !.img = "gone"]
    /\ UNCHANGED <<workflow, host, others>>

NextGone ==
    \/ Next
    \/ ExtRemoveMarker
    \/ ExtDetachVolume
    \/ ExtDeleteVolume
    \/ ExtDeregisterImage

SpecGone == Init /\ [][NextGone]_vars

(***************************************************************************)
(* A direct caller of the awsHashR client: it calls CopyImage,             *)
(* AttachVolume, DetachVolume, DeleteVolume and DeregisterImage on the     *)
(* image and the volume of the control plane, in any order and repeatedly. *)
(***************************************************************************)
MaxCalls == 4       \* calls the direct caller makes

\* The record of a call of `op` that got `answer` and returned `err`; `kind`
\* is the resource the operation removes ("" when it removes none) and
\* `again` tells that an earlier successful call had removed it already.
Called(op, answer, err, kind) ==
    [cl EXCEPT !.op = op, !.answer = answer, !.err = err,
               !.again = kind # "" /\ kind \in cl.removed,
               !.removed = IF err THEN @ ELSE @ \cup (IF kind = "" THEN {} ELSE {kind}),
               !.calls = @ + 1]

clientCopyImage ==
    /\ cl.calls < MaxCalls
    /\ \E answer \in Ec2Answers(TRUE, FALSE) :
         LET err == CopyImage(answer)
         IN  /\ cl' = [Called("CopyImage", answer, err, "") EXCEPT
                          !.removed = IF err THEN @ ELSE @ \ {"image"}]
             /\ ec2' = IF err THEN ec2 ELSE [ec2 EXCEPT !.copies = @ + 1, !.img = "pending"]
    /\ UNCHANGED <<workflow, host, two, fn, rest>>

clientAttachVolume ==
    /\ cl.calls < MaxCalls
    /\ \E device \in {FallbackDevice, DeviceName(deviceIds[1])} :
       \E answer \in Ec2Answers(AttachAccepted(device), VolumeGone) :
         LET err == AttachVolume(answer)
         IN  /\ cl' = [Called("AttachVolume", answer, err, "") EXCEPT
                          !.removed = IF err THEN @ ELSE @ \ {"attachment"},
                          !.device = IF err THEN @ ELSE device]
             /\ ec2' = IF err THEN ec2
                       ELSE [ec2 EXCEPT !.vol = "in-use", !.attState = "attaching",
                                        !.attHost = InstanceId, !.attDevice = device]
    /\ UNCHANGED <<workflow, host, two, fn, rest>>

clientDetachVolume ==
    /\ cl.calls < MaxCalls
    /\ \E answer \in Ec2Answers(DetachAccepted(cl.device, InstanceId), Detached(InstanceId)) :
         LET err == DetachVolume(answer)
         IN  /\ cl' = Called("DetachVolume", answer, err, "attachment")
             /\ ec2' = IF err THEN ec2 ELSE [ec2 EXCEPT !.attState = "detaching"]
    /\ UNCHANGED <<workflow, host, two, fn, rest>>

clientDeleteVolume ==
    /\ cl.calls < MaxCalls
    /\ \E answer \in Ec2Answers(DeleteAccepted, VolumeGone \/ ec2.vol = "deleting") :
         LET err == DeleteVolume(answer)
         IN  /\ cl' = Called("DeleteVolume", answer, err, "volume")
             /\ ec2' = IF err THEN ec2 ELSE [ec2 EXCEPT !.vol = "deleting"]
    /\ UNCHANGED <<workflow, host, two, fn, rest>>

clientDeregisterImage ==
    /\ cl.calls < MaxCalls
    /\ \E answer \in Ec2Answers(DeregisterAccepted, ImageGone \/ ec2.img = "deregistering") :
         LET err == DeregisterImage(answer)
         IN  /\ cl' = Called("DeregisterImage", answer, err, "image")
             /\ ec2' = IF err THEN ec2 ELSE [ec2 EXCEPT !.img = "deregistering"]
    /\ UNCHANGED <<workflow, host, two, fn, rest>>

NextClient ==
    \/ clientCopyImage
    \/ clientAttachVolume
    \/ clientDetachVolume
    \/ clientDeleteVolume
    \/ clientDeregisterImage
    \/ EnvImageAvailable
    \/ EnvAttached
    \/ EnvDetached
    \/ EnvVolumeDeleted
    \/ EnvImageDeregistered

SpecClient == Init /\ [][NextClient]_vars

(***************************************************************************)
(* Two workflow instances run lines 725-736 of generate against the one    *)
(* worker host, each with a volume of its own that is Available:           *)
(* GetAvailableDeviceName, AttachVolume, waitForAttachmentState.           *)
(***************************************************************************)
Instances == 1..2

Other(k) == 3 - k

\* EC2 accepts the attachment at a device name that no device of the host
\* and no attachment in progress has.
twoAttachAccepted(k) ==
    /\ two.deviceName[k] \notin host.devices
    /\ ~(two.att[Other(k)] # "none" /\ two.deviceName[Other(k)] = two.deviceName[k])

\* An instance arrives at line 725.
twoGenerate(k) ==
    /\ two.pc[k] = "off"
    /\ two' = [two EXCEPT !.pc[k] = "gen_device"]
    /\ UNCHANGED <<workflow, ec2, host, cl, fn, rest>>

\* 725-728: a.deviceName, err = GetAvailableDeviceName().
twoDevice(k) ==
    /\ two.pc[k] = "gen_device"
    /\ \E sshErr \in BOOLEAN :
         LET got == GetAvailableDeviceName(sshErr, host.devices)
         IN  two' = [two EXCEPT !.deviceName[k] = got.name,
                                !.pc[k] = IF got.err THEN "failed" ELSE "gen_attach"]
    /\ UNCHANGED <<workflow, ec2, host, cl, fn, rest>>

\* 730-732: AttachVolume(a.deviceName, ahashr.instanceId, a.volumeId).
twoAttach(k) ==
    /\ two.pc[k] = "gen_attach"
    /\ \E answer \in Ec2Answers(twoAttachAccepted(k), FALSE) :
         LET sameName == /\ two.att[Other(k)] \in {"attaching", "attached"}
                         /\ two.deviceName[Other(k)] = two.deviceName[k]
         IN  two' = [two EXCEPT !.clash = @ \/ sameName,
                                !.att[k] = IF AttachVolume(answer) THEN @ ELSE "attaching",
                                !.pc[k] = IF AttachVolume(answer) THEN "failed" ELSE "gen_waitatt",
                                !.i[k] = 0]
    /\ UNCHANGED <<workflow, ec2, host, cl, fn, rest>>

\* 429-445: one iteration of waitForAttachmentState.
twoWaitAttachment(k) ==
    /\ two.pc[k] = "gen_waitatt"
    /\ two.i[k] < a.maxWaitDuration
    /\ \E err \in BOOLEAN :
         LET attachments == {[State |-> two.att[k], InstanceId |-> InstanceId]}
             found == ~err /\ attachmentMatches(attachments, InstanceId, "attached")
         IN  two' = IF found THEN [two EXCEPT !.pc[k] = "done", !.i[k] = 0]
                    ELSE [two EXCEPT !.i[k] = @ + 1]
    /\ UNCHANGED <<workflow, ec2, host, cl, fn, rest>>

\* 447, 734-736: the attachment wait timed out.
twoWaitAttachmentTimeout(k) ==
    /\ two.pc[k] = "gen_waitatt"
    /\ two.i[k] >= a.maxWaitDuration
    /\ two' = [two EXCEPT !.pc[k] = "failed", !.i[k] = 0]
    /\ UNCHANGED <<workflow, ec2, host, cl, fn, rest>>

\* An attachment completes: the device appears on the host.
twoEnvAttached(k) ==
    /\ two.att[k] = "attaching"
    /\ two' = [two EXCEPT !.att[k] = "attached"]
    /\ host' = [host EXCEPT !.devices = @ \cup {two.deviceName[k]}]
    /\ UNCHANGED <<workflow, ec2, cl, fn, rest>>

NextTwo ==
    \/ \E k \in Instances : twoGenerate(k)
    \/ \E k \in Instances : twoDevice(k)
    \/ \E k \in Instances : twoAttach(k)
    \/ \E k \in Instances : twoWaitAttachment(k)
    \/ \E k \in Instances : twoWaitAttachmentTimeout(k)
    \/ \E k \in Instances : twoEnvAttached(k)

SpecTwo == Init /\ [][NextTwo]_vars

(***************************************************************************)
(* A direct caller of GetAvailableDeviceName (aws_hashr.go:523-546) on a   *)
(* host whose devices come and go.                                         *)
(***************************************************************************)
MaxDevices == 3     \* alphabet names that are plugged and unplugged one by one

\* The device names that appear on and disappear from the host.
DevicePool ==
    {"/dev/sda", FallbackDevice} \cup {DeviceName(deviceIds[k]) : k \in 1..MaxDevices}

\* The instance and the control plane are at rest: only the host matters.
InitAlloc ==
    /\ Init
    /\ a.maxWaitDuration = MaxWait
    /\ a.sourceImageId # "" /\ a.sourceImage # "nil"
    /\ ec2.mappings = 1
    /\ ec2.snapshotVolume = UnboundVolume

allocPlug ==
    /\ \E device \in DevicePool \ host.devices :
         host' = [host EXCEPT !.devices = @ \cup {device}]
    /\ UNCHANGED <<workflow, ec2, cl, two, fn, rest>>

allocUnplug ==
    /\ \E device \in DevicePool \cap host.devices :
         host' = [host EXCEPT !.devices = @ \ {device}]
    /\ UNCHANGED <<workflow, ec2, cl, two, fn, rest>>

\* 523-546: one call; the listing fails (sshErr) or lists the host's devices.
allocCall ==
    /\ \E sshErr \in BOOLEAN :
         LET got == GetAvailableDeviceName(sshErr, host.devices)
         IN  fn' = [NoProbe EXCEPT !.op = "GetAvailableDeviceName",
                                   !.used = host.devices, !.sshErr = sshErr,
                                   !.name = got.name, !.err = got.err]
    /\ UNCHANGED <<workflow, ec2, host, cl, two, rest>>

NextAlloc ==
    \/ allocPlug
    \/ allocUnplug
    \/ allocCall

SpecAlloc == InitAlloc /\ [][NextAlloc]_vars

(***************************************************************************)
(* A direct caller of waitForAttachmentState (aws_hashr.go:427-448) on a   *)
(* volume whose attachments change while the caller waits.                 *)
(***************************************************************************)
MaxAttachments == 2     \* attachments one volume has at a time

AttachmentStates == {"attaching", "attached", "detaching"}

AttachmentPool ==
    [State : AttachmentStates, InstanceId : {InstanceId, OtherInstance}]

\* The instance, the control plane and the host are at rest.
InitWait ==
    /\ InitAlloc
    /\ host.devices = {"/dev/sda"}

\* The volume's attachments change.
waitEnvAttachments ==
    /\ fn.op \in {"", "waitForAttachmentState"}
    /\ \E attachments \in SUBSET AttachmentPool :
         /\ Cardinality(attachments) <= MaxAttachments
         /\ fn' = [fn EXCEPT !.attachments = attachments]
    /\ UNCHANGED <<workflow, ec2, host, cl, two, rest>>

\* 427: waitForAttachmentState(volumeId, instanceId, targetState, a.maxWaitDuration).
waitStart ==
    /\ fn.op = ""
    /\ \E targetState \in AttachmentStates :
         fn' = [fn EXCEPT !.op = "waitForAttachmentState", !.target = targetState,
                          !.i = 0, !.result = ""]
    /\ UNCHANGED <<workflow, ec2, host, cl, two, rest>>

\* 429-445: one iteration: GetVolumeAttachment, then the scan of its answer.
waitCheck ==
    /\ fn.op = "waitForAttachmentState"
    /\ fn.result = ""
    /\ fn.i < a.maxWaitDuration
    /\ \E err \in BOOLEAN :
         LET answer == IF err THEN {} ELSE fn.attachments
             found == ~err /\ attachmentMatches(answer, InstanceId, fn.target)
         IN  fn' = [fn EXCEPT !.answer = answer, !.queryErr = err,
                              !.result = IF found THEN "ok" ELSE "",
                              !.i = IF found THEN @ ELSE @ + 1]
    /\ UNCHANGED <<workflow, ec2, host, cl, two, rest>>

\* 447: the budget is used up.
waitTimeout ==
    /\ fn.op = "waitForAttachmentState"
    /\ fn.result = ""
    /\ fn.i >= a.maxWaitDuration
    /\ fn' = [fn EXCEPT !.result = "timeout"]
    /\ UNCHANGED <<workflow, ec2, host, cl, two, rest>>

NextWait ==
    \/ waitEnvAttachments
    \/ waitStart
    \/ waitCheck
    \/ waitTimeout

SpecWait == InitWait /\ [][NextWait]_vars

(***************************************************************************)
(* QuickSHA256Hash (aws.go:84-128, part_002:475-519) on two AwsImage       *)
(* instances built from descriptors of source images.                      *)
(***************************************************************************)
\* Descriptors of source images as DescribeImages returns them. A field the
\* control plane did not set is a nil pointer ("nil").
Descriptors ==
    [ImageId : {"ami-1", "ami-12"},
     CreationDate : {"2023-01-01", "023-01-01"},
     DeprecationTime : {"2025-01-01", "nil"},
     Name : {"al2023", "debian"}]

\* SHA-256 of a byte string, in hexadecimal: injective on the byte string.
Sha256Hex(hashBytes) == "sha256(" \o hashBytes \o ")"

\* A hash that also covers the name of the image.
quickHashWithName(sourceImage) ==
    Sha256Hex(sourceImage.ImageId \o sourceImage.CreationDate
              \o sourceImage.DeprecationTime \o sourceImage.Name)

\* 113-125: the bytes of the three attributes appended one after the other.
quickHash(sourceImage) ==
    Sha256Hex(sourceImage.ImageId \o sourceImage.CreationDate \o sourceImage.DeprecationTime)

\* An AwsImage is built: by DiscoverRepo from a descriptor, or with the
\* identifier alone (sourceImage == nil).
hashNewImage(x) ==
    /\ ~q.img[x].built
    /\ \E d \in Descriptors, resolved \in BOOLEAN :
         q' = [q EXCEPT !.img[x] = [built |-> TRUE, sourceImageId |-> d.ImageId,
                                    resolved |-> resolved,
                                    sourceImage |-> IF resolved THEN d ELSE NoDescriptor,
                                    quickSha256hash |-> ""]]
    /\ UNCHANGED <<workflow, ec2, host, cl, two, fn, ahashr, repos, ssh>>

\* 84-128: one call of QuickSHA256Hash on instance x. With sourceImage nil
\* the descriptor is fetched first (GetImageDetail); a nil attribute stops the
\* call with a nil-pointer panic.
QuickSHA256Hash(x) ==
    /\ q.img[x].built
    /\ LET img == q.img[x]
           was == [q EXCEPT !.prev[x] = q.out[x]]
       IN  IF img.quickSha256hash # ""
           THEN q' = [was EXCEPT !.out[x] = [hash |-> img.quickSha256hash, end |-> "returned"]]
           ELSE \E fetchErr \in BOOLEAN :
                \E fetched \in {d \in Descriptors : d.ImageId = img.sourceImageId} :
                  LET sourceImage == IF img.resolved THEN img.sourceImage ELSE fetched
                  IN  IF ~img.resolved /\ fetchErr
                      THEN q' = [was EXCEPT !.out[x] = [hash |-> "", end |-> "error"]]
                      ELSE IF sourceImage.DeprecationTime = "nil"
                      THEN q' = [was EXCEPT !.out[x] = [hash |-> "", end |-> "panic"],
                                            !.img[x].resolved = TRUE,
                                            !.img[x].sourceImage = sourceImage]
                      ELSE q' = [was EXCEPT !.out[x] = [hash |-> quickHash(sourceImage),
                                                        end |-> "returned"],
                                            !.img[x].resolved = TRUE,
                                            !.img[x].sourceImage = sourceImage,
                                            !.img[x].quickSha256hash = quickHash(sourceImage)]
    /\ UNCHANGED <<workflow, ec2, host, cl, two, fn, ahashr, repos, ssh>>

NextHash ==
    \/ \E x \in 1..2 : hashNewImage(x)
    \/ \E x \in 1..2 : QuickSHA256Hash(x)

SpecHash == InitWait /\ [][NextHash]_vars

(***************************************************************************)
(* Several Repo objects in one process: NewRepo (part_002:546-570) assigns *)
(* the package variable ahashr, and every AwsImage calls through it.       *)
(***************************************************************************)
MaxRepos == 3       \* Repo objects created in the process

\* 546-570: ahashr = NewAwsHashR(); SetupClient; SSHClientSetup.
NewRepo ==
    /\ Len(repos.made) < MaxRepos
    /\ \E instanceId \in {InstanceId, OtherInstance} :
         LET n == Len(repos.made) + 1
             client == [handle |-> n, instanceId |-> instanceId, sshclient |-> n]
         IN  /\ ahashr' = client
             /\ repos' = [repos EXCEPT !.made = Append(@, client),
                                       !.used = Append(@, NoUse)]
    /\ UNCHANGED <<workflow, ec2, host, cl, two, fn, q, ssh>>

\* An AwsImage of the k-th Repo makes a call in copy, generate, download or
\* cleanup: ahashr.<op>(...), with ahashr.instanceId where the host is named.
repoCall(k) ==
    /\ k \in 1..Len(repos.made)
    /\ \E op \in {"GetImageDetail", "AttachVolume", "RunSSHCommand"} :
         repos' = [repos EXCEPT !.used[k] = [op |-> op, handle |-> ahashr.handle,
                                             instanceId |-> ahashr.instanceId,
                                             sshclient |-> ahashr.sshclient]]
    /\ UNCHANGED <<workflow, ec2, host, cl, two, fn, q, ahashr, ssh>>

NextRepos ==
    \/ NewRepo
    \/ \E k \in 1..MaxRepos : repoCall(k)

SpecRepos == InitWait /\ [][NextRepos]_vars

(***************************************************************************)
(* RunSSHCommand (aws_hashr.go:482-497) called by concurrent workflows on  *)
(* the one SSH client: sessions, the command run on each, the deferred     *)
(* Close, and what the call returns.                                       *)
(***************************************************************************)
MaxCommands == 3    \* RunSSHCommand calls started
Callers == {1, 2}

keepOpen(open, session) == open

\* 487: defer session.Close()
deferredClose(open, session) == open \ {session}

\* 492-496: a failed Run returns "" and an error, else the buffer and nil.
runResult(status, stdout) ==
    IF status # 0
    THEN [done |-> FALSE, status |-> status, out |-> "",
          err |-> "error running command on the remote instance"]
    ELSE [done |-> FALSE, status |-> 0, out |-> stdout, err |-> ""]

sshCall(c) ==
    /\ ssh.pc[c] = "idle"
    /\ ssh.calls < MaxCommands
    /\ ssh' = [ssh EXCEPT !.pc[c] = "NewSession", !.calls = @ + 1, !.cur[c] = 0,
                          !.opened[c] = 0, !.ret[c] = NoReturn]
    /\ UNCHANGED <<workflow, ec2, host, cl, two, fn, q, ahashr, repos>>

\* 483-486
sshNewSession(c) ==
    /\ ssh.pc[c] = "NewSession"
    /\ \E failed \in BOOLEAN :
         IF failed
         THEN ssh' = [ssh EXCEPT !.pc[c] = "idle",
                        !.ret[c] = [done |-> TRUE, status |-> 0, out |-> "",
                                    err |-> "error creating a SSH session"]]
         ELSE ssh' = [ssh EXCEPT !.pc[c] = "Run", !.made = @ + 1,
                        !.open = @ \cup {ssh.made + 1},
                        !.ran = Append(@, 0),
                        !.cur[c] = ssh.made + 1, !.opened[c] = @ + 1]
    /\ UNCHANGED <<workflow, ec2, host, cl, two, fn, q, ahashr, repos>>

\* 489-494: session.Run(cmd) with Stdout collected in buf
sshRun(c) ==
    /\ ssh.pc[c] = "Run"
    /\ \E status \in {0, 1}, stdout \in {"", "/dev/sdf"} :
         ssh' = [ssh EXCEPT !.pc[c] = "return", !.ran[ssh.cur[c]] = @ + 1,
                            !.ret[c] = runResult(status, stdout)]
    /\ UNCHANGED <<workflow, ec2, host, cl, two, fn, q, ahashr, repos>>

\* the return statement of 493 or 496, at which the deferred Close runs
sshReturn(c) ==
    /\ ssh.pc[c] = "return"
    /\ ssh' = [ssh EXCEPT !.pc[c] = "idle", !.ret[c].done = TRUE,
                          !.open = deferredClose(@, ssh.cur[c])]
    /\ UNCHANGED <<workflow, ec2, host, cl, two, fn, q, ahashr, repos>>

NextSSH ==
    \E c \in Callers :
      \/ sshCall(c)
      \/ sshNewSession(c)
      \/ sshRun(c)
      \/ sshReturn(c)

SpecSSH == InitWait /\ [][NextSSH]_vars

(***************************************************************************)
(* The describe helpers of the client (aws_hashr.go:220-238, 241-266,      *)
(* 323-346): one request for one identifier, and the list the control      *)
(* plane answers with.                                                     *)
(***************************************************************************)
MaxMatches == 2     \* entries in one describe answer

NoItem == [Id |-> "", Rev |-> 0]

\* What the control plane may list: entries of the requested or another
\* identifier, in two revisions.
DescribeItems(ids) == [Id : ids, Rev : {1, 2}]

DescribeAnswers(ids) ==
    UNION {[1..n -> DescribeItems(ids)] : n \in 0..MaxMatches}

describeFirst(reqErr, matches, text) ==
    IF reqErr \/ Len(matches) = 0
    THEN [ok |-> FALSE, item |-> NoItem, err |-> "error getting details"]
    ELSE [ok |-> TRUE, item |-> matches[1], err |-> ""]

\* err != nil -> nil, err; len(output.X) != 1 -> nil, error; &output.X[0], nil
describeOne(reqErr, matches, text) ==
    IF reqErr
    THEN [ok |-> FALSE, item |-> NoItem, err |-> "error getting details"]
    ELSE IF Len(matches) # 1
         THEN [ok |-> FALSE, item |-> NoItem,
               err |-> "expecting 1 " \o text \o ", received " \o ToString(Len(matches))]
         ELSE [ok |-> TRUE, item |-> matches[1], err |-> ""]

describeCall(op, ids, text) ==
    /\ \E id \in ids, reqErr \in BOOLEAN, matches \in DescribeAnswers(ids) :
         fn' = [NoProbe EXCEPT !.op = op, !.id = id, !.queryErr = reqErr,
                               !.matches = IF reqErr THEN <<>> ELSE matches,
                               !.detail = describeOne(reqErr, matches, text)]
    /\ UNCHANGED <<workflow, ec2, host, cl, two, rest>>

GetImageDetail == describeCall("GetImageDetail", {ImageName(1), ImageName(2)}, "image")

GetSnapshot == describeCall("GetSnapshot", {MappingSnapshot(1), MappingSnapshot(2)}, "snapshot")

GetVolumeDetail == describeCall("GetVolumeDetail", {UnboundVolume, BoundVolume}, "volume")

NextDescribe ==
    \/ GetImageDetail
    \/ GetSnapshot
    \/ GetVolumeDetail

SpecDescribe == InitWait /\ [][NextDescribe]_vars

(***************************************************************************)
(* CreateVolume of the client (aws_hashr.go:281-303): the create request,  *)
(* then waitForVolumeState(Available) on the new volume, while the control *)
(* plane moves the volume through its states.                              *)
(***************************************************************************)
CreateVolumeWait == 2   \* attempts of the wait in CreateVolume (600 in the code)

\* Any volume that exists counts as ready.
volumeExists(state, targetState) == state # "none"

\* 416: state == targetState
volumeInState(state, targetState) == state = targetState

\* 291-294: the request; a rejected request returns "" and an error.
createVolumeRequest ==
    /\ fn.op = ""
    /\ \E snapshotId \in {MappingSnapshot(1), MappingSnapshot(2)}, rejected \in BOOLEAN :
         IF rejected
         THEN fn' = [NoProbe EXCEPT !.op = "CreateVolume",
                       !.volume.snapshotId = snapshotId,
                       !.ret = [done |-> TRUE, volumeId |-> "",
                                err |-> "error creating a volume from the snapshot"]]
         ELSE fn' = [NoProbe EXCEPT !.op = "CreateVolume",
                       !.volume = [id |-> VolumeName(1), state |-> "creating",
                                   snapshotId |-> snapshotId]]
    /\ UNCHANGED <<workflow, ec2, host, cl, two, rest>>

\* The control plane: the volume becomes available, fails, or is taken away.
createVolumeEnv ==
    /\ fn.op = "CreateVolume"
    /\ \E state \in {"available", "error", "none"} :
         /\ fn.volume.state \in {"creating", "available"}
         /\ state # fn.volume.state
         /\ fn' = [fn EXCEPT !.volume.state = state]
    /\ UNCHANGED <<workflow, ec2, host, cl, two, rest>>

\* 298 with 408-420: one iteration of the wait on *output.VolumeId
createVolumePoll ==
    /\ fn.op = "CreateVolume"
    /\ ~fn.ret.done
    /\ fn.i < CreateVolumeWait
    /\ \E queryErr \in BOOLEAN :
         LET seen == IF queryErr \/ fn.volume.state = "none"
                     THEN "query error" ELSE fn.volume.state
         IN  IF seen # "query error" /\ volumeInState(seen, "available")
             THEN fn' = [fn EXCEPT !.observed = Append(@, seen),
                                   !.ret = [done |-> TRUE, volumeId |-> fn.volume.id,
                                            err |-> ""]]
             ELSE fn' = [fn EXCEPT !.observed = Append(@, seen),
                                   !.i = nextAttempt(@)]
    /\ UNCHANGED <<workflow, ec2, host, cl, two, rest>>

\* 422 with 298-300: the wait is exhausted; "" and the wait's error.
createVolumeTimeout ==
    /\ fn.op = "CreateVolume"
    /\ ~fn.ret.done
    /\ fn.i >= CreateVolumeWait
    /\ fn' = [fn EXCEPT !.ret = [done |-> TRUE, volumeId |-> "",
                                 err |-> "volume is not in the target state"]]
    /\ UNCHANGED <<workflow, ec2, host, cl, two, rest>>

NextCreate ==
    \/ createVolumeRequest
    \/ createVolumeEnv
    \/ createVolumePoll
    \/ createVolumeTimeout

SpecCreate == InitWait /\ [][NextCreate]_vars

(***************************************************************************)
(* The workflow of one AwsImage while further Repo objects are created in  *)
(* the process: AttachVolume (730), waitForAttachmentState (734) and       *)
(* DetachVolume (801) each read ahashr.instanceId when they are called.    *)
(***************************************************************************)
NextShared ==
    \/ Next
    \/ NewRepo

SpecShared == InitLive /\ [][NextShared]_vars

(***************************************************************************)
(* DiscoverRepo (part_002:583-610) over the listing GetAmazonImages        *)
(* (aws_hashr.go:109-146) filters.  Texts are sequences of characters, so  *)
(* that lower-casing and containment are computed.  Each source keeps the  *)
(* address of the loop variable `image`: a build with one variable for the *)
(* whole loop and a build with one variable per iteration are both         *)
(* modelled.                                                               *)
(***************************************************************************)
MaxImages == 2      \* images in the listing of DescribeImages

NilText == [nil |-> TRUE, chars |-> <<>>]

Text(chars) == [nil |-> FALSE, chars |-> chars]

\* strings.ToLower on the letters that occur
ToLower(chars) ==
    [p \in 1..Len(chars) |->
       CASE chars[p] = "U" -> "u"
         [] chars[p] = "B" -> "b"
         [] chars[p] = "D" -> "d"
         [] OTHER -> chars[p]]

\* strings.Contains
Contains(chars, substr) ==
    \E p \in 0..(Len(chars) - Len(substr)) :
      \A j \in 1..Len(substr) : chars[p + j] = substr[j]

ImageNames == {NilText, Text(<<"U", "b", "2">>), Text(<<"d", "e", "b">>)}

ImageDescriptions == {NilText, Text(<<"a", "u", "B">>), Text(<<"D", "e", "b">>)}

OsNames == {<<"u", "B">>, <<"d", "E", "b">>, <<"d", "e", "b">>}

\* What DescribeImages may list: the k-th image has the k-th identifier.
Listings ==
    UNION {{[k \in 1..n |-> [ImageId |-> ImageName(k), Name |-> names[k],
                             Description |-> descriptions[k]]] :
              names \in [1..n -> ImageNames],
              descriptions \in [1..n -> ImageDescriptions]} : n \in 0..MaxImages}

\* 133-143 without the `continue` statements.
filterWithoutContinue(listed, osname) ==
    LET F[k \in 0..Len(listed)] ==
          IF k = 0 THEN <<>>
          ELSE LET image == listed[k]
                   byName == IF ~image.Name.nil
                                /\ Contains(ToLower(image.Name.chars), osname)
                             THEN <<image>> ELSE <<>>
                   byDescription == IF ~image.Description.nil
                                       /\ Contains(ToLower(image.Description.chars), osname)
                                    THEN <<image>> ELSE <<>>
               IN  F[k - 1] \o byName \o byDescription
    IN  F[Len(listed)]

\* 133-143: the loop over output.Images, osname already lower-cased.
filterImages(listed, osname) ==
    LET F[k \in 0..Len(listed)] ==
          IF k = 0 THEN <<>>
          ELSE LET image == listed[k]
               IN  IF ~image.Name.nil /\ Contains(ToLower(image.Name.chars), osname)
                   THEN Append(F[k - 1], image)
                   ELSE IF ~image.Description.nil
                           /\ Contains(ToLower(image.Description.chars), osname)
                        THEN Append(F[k - 1], image)
                        ELSE F[k - 1]
    IN  F[Len(listed)]

\* 109-146, given what DescribeImages listed
GetAmazonImages(listed, osname) == filterImages(listed, ToLower(osname))

\* 584-592: the call of GetAmazonImages and the two early returns.
discoverList ==
    /\ repos.scan.pc = "idle"
    /\ \E osName \in OsNames, listed \in Listings, reqErr \in BOOLEAN,
          perIteration \in BOOLEAN :
         LET images == IF reqErr THEN <<>> ELSE GetAmazonImages(listed, osName)
             scan == [NoScan EXCEPT !.osName = osName,
                                    !.listed = IF reqErr THEN <<>> ELSE listed,
                                    !.reqErr = reqErr, !.perIteration = perIteration,
                                    !.images = images]
         IN  /\ reqErr => (listed = <<>> /\ ~perIteration)
             /\ repos' = [repos EXCEPT !.scan =
                   IF reqErr
                   THEN [scan EXCEPT !.pc = "done",
                           !.ret = [done |-> TRUE, n |-> 0, err |-> "error getting image list"]]
                   ELSE IF Len(images) = 0
                   THEN [scan EXCEPT !.pc = "done",
                           !.ret = [done |-> TRUE, n |-> 0,
                                    err |-> "image details is missing or nil for OS"]]
                   ELSE [scan EXCEPT !.pc = "loop", !.k = 1]]
    /\ UNCHANGED <<workflow, ec2, host, cl, two, fn, q, ahashr, ssh>>

\* 594-607: one iteration.  `image` is assigned images[k]; the new AwsImage
\* keeps *image.ImageId and the address &image.
discoverLoop ==
    /\ repos.scan.pc = "loop"
    /\ repos.scan.k <= Len(repos.scan.images)
    /\ LET scan == repos.scan
           image == scan.images[scan.k]
           cells == IF scan.perIteration \/ scan.cells = <<>>
                    THEN Append(scan.cells, image)
                    ELSE [scan.cells EXCEPT ![1] = image]
           awsimage == [sourceImageId |-> image.ImageId, sourceImage |-> Len(cells)]
       IN  repos' = [repos EXCEPT !.scan.cells = cells,
                                  !.scan.sources = Append(@, awsimage),
                                  !.scan.k = @ + 1]
    /\ UNCHANGED <<workflow, ec2, host, cl, two, fn, q, ahashr, ssh>>

\* 609: return sources, nil
discoverReturn ==
    /\ repos.scan.pc = "loop"
    /\ repos.scan.k > Len(repos.scan.images)
    /\ repos' = [repos EXCEPT !.scan.pc = "done",
                    !.scan.ret = [done |-> TRUE, n |-> Len(repos.scan.sources), err |-> ""]]
    /\ UNCHANGED <<workflow, ec2, host, cl, two, fn, q, ahashr, ssh>>

NextDiscover ==
    \/ discoverList
    \/ discoverLoop
    \/ discoverReturn

SpecDiscover == InitWait /\ [][NextDiscover]_vars

(***************************************************************************)
(* The two revisions of copy, part_002:236-278 and part_002:642-688, each  *)
(* run on a new AwsImage against the same answers of the control plane:    *)
(* the same outcome of the region and CopyImage requests and the same      *)
(* result of the k-th GetImageDetail.  A detail is written as its state.   *)
(***************************************************************************)
DescribeResults == {"error", "pending", "available"}

\* Both revisions are called with one budget and one sequence of results.
copyBoth ==
    /\ fn.op = ""
    /\ \E budget \in 0..MaxWait, request \in {"ok", "region error", "copy error"}, src \in Sources :
       \E results \in [1..budget -> DescribeResults] :
         LET entry == IF sourceMissing(src.sourceImageId, src.sourceImage) THEN "missing"
                      ELSE "CopyImage"
         IN  fn' = [NoProbe EXCEPT !.op = "copy", !.budget = budget,
                                   !.results = results, !.request = request,
                                   !.earlier.pc = entry, !.later.pc = entry]
    /\ UNCHANGED <<workflow, ec2, host, cl, two, rest>>

\* 238-257: the source checks, the region, CopyImage into the local imageId.
earlierCopyImage ==
    /\ fn.earlier.pc \in {"missing", "CopyImage"}
    /\ fn' = IF fn.earlier.pc = "missing" \/ fn.request # "ok"
             THEN [fn EXCEPT !.earlier.pc = "done", !.earlier.ret = "error"]
             ELSE [fn EXCEPT !.earlier.pc = "loop"]
    /\ UNCHANGED <<workflow, ec2, host, cl, two, rest>>

\* 261-271: one iteration; on Available the loop is left and 273-277 run.
earlierPoll ==
    /\ fn.earlier.pc = "loop"
    /\ fn.earlier.i < fn.budget
    /\ LET image == fn.results[fn.earlier.i + 1]
       IN  fn' = CASE image = "error" ->
                        [fn EXCEPT !.earlier.pc = "done", !.earlier.ret = "error"]
                   [] image = "available" ->
                        [fn EXCEPT !.earlier.pc = "done", !.earlier.image = image,
                                   !.earlier.aImageId = ImageName(1),
                                   !.earlier.aImage = image, !.earlier.ret = "ok"]
                   [] OTHER ->
                        [fn EXCEPT !.earlier.image = image, !.earlier.i = nextAttempt(@)]
    /\ UNCHANGED <<workflow, ec2, host, cl, two, rest>>

\* 273-277 after the budget ran out: *image.ImageId is read for the log line
\* (image is nil when no iteration ran), then a.imageId and a.image are set.
earlierExhausted ==
    /\ fn.earlier.pc = "loop"
    /\ fn.earlier.i >= fn.budget
    /\ fn' = IF fn.earlier.image = "nil"
             THEN [fn EXCEPT !.earlier.pc = "done", !.earlier.ret = "panic"]
             ELSE [fn EXCEPT !.earlier.pc = "done", !.earlier.ret = "ok",
                             !.earlier.aImageId = ImageName(1),
                             !.earlier.aImage = fn.earlier.image]
    /\ UNCHANGED <<workflow, ec2, host, cl, two, rest>>

\* 644-663: the source checks, the region, CopyImage, a.imageId = imageId.
laterCopyImage ==
    /\ fn.later.pc \in {"missing", "CopyImage"}
    /\ fn' = IF fn.later.pc = "missing" \/ fn.request # "ok"
             THEN [fn EXCEPT !.later.pc = "done", !.later.ret = "error"]
             ELSE [fn EXCEPT !.later.pc = "loop", !.later.aImageId = ImageName(1)]
    /\ UNCHANGED <<workflow, ec2, host, cl, two, rest>>

\* 667-679: one iteration; on Available a.image is set, the loop is left and
\* 681-687 return nil.
laterPoll ==
    /\ fn.later.pc = "loop"
    /\ fn.later.i < fn.budget
    /\ LET image == fn.results[fn.later.i + 1]
       IN  fn' = CASE image = "error" ->
                        [fn EXCEPT !.later.pc = "done", !.later.ret = "error"]
                   [] image = "available" ->
                        [fn EXCEPT !.later.pc = "done", !.later.image = image,
                                   !.later.aImage = image, !.later.ret = "ok"]
                   [] OTHER ->
                        [fn EXCEPT !.later.image = image, !.later.i = nextAttempt(@)]
    /\ UNCHANGED <<workflow, ec2, host, cl, two, rest>>

\* 681-683 after the budget ran out: a.image == nil is an error.
laterExhausted ==
    /\ fn.later.pc = "loop"
    /\ fn.later.i >= fn.budget
    /\ fn' = IF fn.later.aImage = "nil"
             THEN [fn EXCEPT !.later.pc = "done", !.later.ret = "error"]
             ELSE [fn EXCEPT !.later.pc = "done", !.later.ret = "ok"]
    /\ UNCHANGED <<workflow, ec2, host, cl, two, rest>>

NextRevisions ==
    \/ copyBoth
    \/ earlierCopyImage
    \/ earlierPoll
    \/ earlierExhausted
    \/ laterCopyImage
    \/ laterPoll
    \/ laterExhausted

SpecRevisions == InitWait /\ [][NextRevisions]_vars

(***************************************************************************)
(* Properties.                                                             *)
(***************************************************************************)
IsPrefix(s1, s2) == Len(s1) <= Len(s2) /\ SubSeq(s2, 1, Len(s1)) = s1

Returned_ == pc = "idle" /\ h.result # "none"

Succeeded == pc = "idle" /\ h.result = "ok"

\* The operations that mark the work of the four phases.
PhaseMarks == {"CopyImage", "hashr-archive", "DownloadImage", "DeregisterImage"}

IsPhaseMark(op) == op \in PhaseMarks

\* C1: the phases a run has entered are always an initial part of copy,
\* generate, download, cleanup (none skipped, none entered twice), and a run
\* that returned success entered all four and issued the work of each, in
\* that order, on an image with at least one block-device mapping.
C1_PhaseSequence ==
    /\ IsPrefix(h.phases, PhaseOrder)
    /\ Succeeded =>
         /\ h.phases = PhaseOrder
         /\ ec2.mappings >= 1
         /\ SelectSeq(h.ops, IsPhaseMark)
              = <<"CopyImage", "hashr-archive", "DownloadImage", "DeregisterImage">>

C1_Witness ==
    /\ Succeeded
    /\ ec2.mappings >= 1
    /\ h.phases = PhaseOrder

\* C2: when Preprocess has returned, every resource the run created has been
\* released: the copied image deregistered, the created volume deleted, the
\* attachment detached.
C2_CleanupOnEveryExit ==
    Returned_ =>
      /\ "image" \in h.created => ec2.img \in {"deregistering", "gone"}
      /\ "volume" \in h.created => ec2.vol \in {"deleting", "deleted"}
      /\ "attachment" \in h.created => ec2.attState \in {"detaching", "none"}

\* C3: once a phase function has returned an error, Preprocess has returned
\* an error and the failed phase is the last one the run entered.
C3_FirstErrorReturned ==
    h.errPhase # "" =>
      /\ pc = "idle"
      /\ h.result = "error"
      /\ h.phases[Len(h.phases)] = h.errPhase

C3_Witness ==
    /\ h.errPhase = "download"
    /\ h.result = "error"
    /\ h.phases = <<"copy", "generate", "download">>

\* C4: when Preprocess has returned success, the run's volume and the copied
\* image no longer exist.
C4_GoneOnSuccess ==
    Succeeded => (ec2.vol = "deleted" /\ ec2.img = "gone")

\* The operations cleanup has issued: the run's operations from the removal
\* of the marker on.
CleanupOps ==
    IF \E k \in 1..Len(h.ops) : h.ops[k] = "rm"
    THEN SubSeq(h.ops, CHOOSE k \in 1..Len(h.ops) : h.ops[k] = "rm", Len(h.ops))
    ELSE <<>>

CleanupSequence ==
    <<"rm", "DetachVolume", "GetVolumeState", "DeleteVolume", "VolumeExists",
      "DeregisterImage", "ImageExists">>

\* C5: the operations of cleanup are an initial part of: remove the marker,
\* detach, wait for the volume, delete the volume, poll the volume, deregister
\* the image, poll the image; the volume is deleted only after the wait that
\* followed the detach saw it Available; the object-store delete is not issued.
C5_CleanupOrder ==
    /\ IsPrefix(CleanupOps, CleanupSequence)
    /\ pc = "cl_delvol" =>
         (h.lastWait.kind = "volume" /\ h.lastWait.seen /\ h.lastWait.outcome = "ok")
    /\ \A k \in 1..Len(h.ops) : h.ops[k] # "DeleteBucketImage"

C5_Witness ==
    /\ Succeeded
    /\ CleanupOps = CleanupSequence


\* C6: a second DeleteVolume, DeregisterImage or DetachVolume against the
\* resource an earlier call already removed, which the control plane answers
\* with 'no such resource', returns success and not an error.
C6_ClientIdempotent ==
    (/\ cl.op \in {"DeleteVolume", "DeregisterImage", "DetachVolume"}
     /\ cl.again
     /\ cl.answer = "Gone") => ~cl.err

\* C7: cleanup never aborts because a resource was already absent when its
\* step ran: an error of the cleanup phase has another cause, and a resource
\* that is already gone does not keep cleanup from returning success.
C7_GoneTolerated ==
    h.errPhase = "cleanup" => h.cause # "Gone"

\* C8: two instances are never both between 'device name allocated' and
\* 'attach issued', and none issues AttachVolume with the device name of the
\* other's pending or completed attachment.
C8_AllocateAttachSerialized ==
    /\ ~(two.pc[1] = "gen_attach" /\ two.pc[2] = "gen_attach")
    /\ ~two.clash

\* C9: a.imageId, once it has a non-empty value, keeps that value.
C9_ImageIdNeverChanges ==
    h.firstImageId # "" => a.imageId = h.firstImageId

\* The attempt budget of the four waits of copy and generate.
WaitBudget(kind) ==
    IF kind = "marker" THEN 2 * a.maxWaitDuration ELSE a.maxWaitDuration

\* C10: a wait for the image, the volume, the attachment or the marker that
\* ended without having seen its condition ended in a timeout after exactly
\* its attempt budget of checks.
C10_WaitBoundary ==
    (h.lastWait.kind \in {"image", "volume", "attachment", "marker"} /\ ~h.lastWait.seen) =>
      (h.lastWait.outcome = "timeout" /\ h.lastWait.checks = WaitBudget(h.lastWait.kind))

\* C11: no polling loop ends by returning the error of a status query: a
\* failed query uses up one attempt and the loop goes on.
C11_QueryErrorNotReturned ==
    h.lastWait.outcome # "error"

\* C12: generate allocates a device name and attaches the volume only after
\* the wait for the volume has observed it Available.
C12_AttachAfterAvailable ==
    pc \in {"gen_device", "gen_attach"} =>
      (h.lastWait.kind = "volume" /\ h.lastWait.seen)

\* C13: once copy has returned success in a run, the image detail the
\* instance holds is the one describeImage returned for the copied-image
\* identifier of this run, in state Available.
C13_CopySuccessDetail ==
    Len(h.phases) >= 2 => a.image = a.imageId

\* C14: no wait issues two status queries back-to-back: between any two
\* consecutive checks of a wait there is a sleep.
C14_SleepBetweenChecks ==
    ~h.wait.backToBack /\ ~h.lastWait.backToBack

C16_AlphabetOrExhausted ==
    fn.op = "GetAvailableDeviceName" =>
      /\ fn.err <=> (AllDeviceNames \subseteq fn.used)
      /\ ~fn.err => (fn.name \in AllDeviceNames /\ fn.name \notin fn.used)

\* C17: waitForAttachmentState has returned success only if its last query
\* succeeded and returned an attachment in the target state whose instance is
\* the requested one.
C17_AttachmentPair ==
    (fn.op = "waitForAttachmentState" /\ fn.result = "ok") =>
      /\ ~fn.queryErr
      /\ \E attachment \in fn.answer :
           attachment.State = fn.target /\ attachment.InstanceId = InstanceId

C17_Witness ==
    /\ fn.op = "waitForAttachmentState"
    /\ fn.result = "ok"
    /\ fn.target = "attached"
    /\ [State |-> "attached", InstanceId |-> OtherInstance] \in fn.answer

Issued(op) == \E k \in 1..Len(h.ops) : h.ops[k] = op

\* C18: CreateVolume is called at most once in a run, and only for a snapshot
\* whose volume is the sentinel, with the first mapping's snapshot, that
\* mapping's size and the zone; once generate has resolved the volume it has
\* been called exactly when the snapshot's volume is the sentinel; and for a
\* snapshot with a bound volume that volume is the one AttachVolume is given.
C18_VolumeResolution ==
    /\ Len(h.createVolume) <= 1
    /\ Len(h.createVolume) = 1 =>
         /\ ec2.snapshotVolume = "vol-ffffffff"
         /\ h.createVolume[1] = [snapshotId |-> "snap-1", size |-> 8, zone |-> Region]
    /\ h.resolved => (Len(h.createVolume) = 1 <=> ec2.snapshotVolume = "vol-ffffffff")
    /\ \A k \in 1..Len(h.attach) :
         IF ec2.snapshotVolume = "vol-ffffffff"
         THEN h.attach[k].volumeId = ec2.volId /\ "volume" \in h.created
         ELSE h.attach[k].volumeId = ec2.snapshotVolume

C18_Witness ==
    /\ h.resolved
    /\ Len(h.createVolume) = 1
    /\ ec2.mappings = MaxMappings
    /\ Len(h.attach) = 1

\* C19: the archive command is run at most once in a run, with the allocated
\* device, remotePath/archiveName and the bucket, while the volume is Attached
\* to this instance and before any marker poll; the marker is polled only
\* after the command returned without error, and a failed command fails
\* generate.
C19_ArchiveOnce ==
    /\ Len(h.archive) <= 1
    /\ Len(h.archive) = 1 =>
         /\ h.archive[1].cmd = "/usr/local/sbin/hashr-archive " \o a.deviceName \o " /data/"
                                 \o a.sourceImageId \o "-raw.dd.gz bucket-x"
         /\ h.archive[1].attached
         /\ h.archive[1].polls = 0
         /\ h.archive[1].err => (h.errPhase = "generate" /\ ~Issued("ls"))
    /\ Issued("ls") => (Len(h.archive) = 1 /\ ~h.archive[1].err)

C19_Witness ==
    /\ Len(h.archive) = 1
    /\ ~h.archive[1].err
    /\ Issued("ls")
    /\ a.deviceName = "/dev/sdi"

\* C20: download is entered only after a listing succeeded and reported the
\* marker; every listing of the marker wait, failed or not, uses up one
\* attempt; and a marker wait that timed out made its whole budget of checks,
\* failed generate and let no download start.
C20_DownloadAfterMarker ==
    /\ Len(h.phases) >= 3 => (h.markerThere /\ Issued("ls"))
    /\ pc = "gen_marker" =>
         (h.wait.kind = "marker" /\ h.wait.checks = i /\ i <= 2 * a.maxWaitDuration)
    /\ (h.lastWait.kind = "marker" /\ h.lastWait.outcome = "timeout") =>
         /\ h.errPhase = "generate"
         /\ h.lastWait.checks = 2 * a.maxWaitDuration
         /\ ~Issued("DownloadImage")

C20_Witness ==
    /\ pc = "download"
    /\ h.lastWait.kind = "marker"
    /\ h.lastWait.checks >= 2
    /\ h.markerThere

\* C21: on an instance whose source identifier is empty or whose source
\* descriptor is nil, no run has issued any operation, imageId and image are
\* as they were constructed, and a run that returned failed in copy.
C21_CopyPreconditions ==
    (a.sourceImageId = "" \/ a.sourceImage = "nil") =>
      /\ h.ops = <<>>
      /\ a.imageId = "" /\ a.image = "nil"
      /\ ec2.copies = 0
      /\ Returned_ => (h.result = "error" /\ h.errPhase = "copy" /\ h.phases = <<"copy">>)

C21_Witness ==
    /\ Returned_
    /\ a.sourceImageId # "" /\ a.sourceImage = "nil"
    /\ h.errPhase = "copy"
    /\ h.ops = <<>>

\* The instance x has returned a hash from its last call.
Hashed(x) == q.out[x].end = "returned"

\* The three attributes the quick hash is made of.
Triple(sourceImage) ==
    <<sourceImage.ImageId, sourceImage.CreationDate, sourceImage.DeprecationTime>>

\* C22: two calls on one instance that returned a hash returned the same one,
\* and two instances whose descriptors agree on (imageId, creationDate,
\* deprecationTime) got the same hash, whatever the names are.
C22_QuickHashStable ==
    /\ \A x \in 1..2 :
         (Hashed(x) /\ q.prev[x].end = "returned") =>
           q.prev[x].hash = q.out[x].hash
    /\ (Hashed(1) /\ Hashed(2)
        /\ Triple(q.img[1].sourceImage) = Triple(q.img[2].sourceImage)) =>
         q.out[1].hash = q.out[2].hash

C22_Witness ==
    /\ Hashed(1) /\ Hashed(2)
    /\ q.prev[1].end = "returned"
    /\ Triple(q.img[1].sourceImage) = Triple(q.img[2].sourceImage)
    /\ q.img[1].sourceImage.Name # q.img[2].sourceImage.Name

C24_ErrorNamesPhase ==
    h.result = "error" =>
      /\ WrapNames(h.wrap) = h.errPhase
      /\ WrapCarries(h.errPhase) \cap {"sourceImageId", "archiveName"} # {}

\* C25: a Preprocess that has been invoked eventually returns.
C25_Terminates == (pc # "idle") ~> (pc = "idle")

C25_Witness ==
    /\ Returned_
    /\ h.lastWait.kind = "marker"
    /\ h.lastWait.outcome = "timeout"
    /\ h.lastWait.checks = 2 * MaxWait

\* C26: the client handle, the instance identity and the remote-shell client
\* an instance calls with are those its own Repo was created with, whatever
\* other Repo objects are created.
C26_ClientNotShared ==
    \A k \in 1..Len(repos.made) :
      repos.used[k].op # "" =>
        /\ repos.used[k].handle = repos.made[k].handle
        /\ repos.used[k].instanceId = repos.made[k].instanceId
        /\ repos.used[k].sshclient = repos.made[k].sshclient

\* C27: a RunSSHCommand call opens at most one session (exactly one once
\* NewSession succeeded), every session runs at most one command and belongs
\* to one call, the session is closed when the call has returned, after
\* success and after command failure alike, and a non-zero completion is
\* returned as an error with empty output.
C27_SessionPerCommand ==
    /\ \A s \in 1..ssh.made : ssh.ran[s] <= 1
    /\ \A c \in Callers :
         /\ ssh.opened[c] <= 1
         /\ ssh.pc[c] \in {"Run", "return"} => ssh.opened[c] = 1
         /\ \A d \in Callers \ {c} : ssh.cur[c] # 0 => ssh.cur[c] # ssh.cur[d]
         /\ ssh.pc[c] = "idle" =>
              /\ ssh.cur[c] \notin ssh.open
              /\ ssh.cur[c] # 0 => ssh.ran[ssh.cur[c]] = 1
         /\ ssh.ret[c].status # 0 => ssh.ret[c].out = "" /\ ssh.ret[c].err # ""
    /\ (\A c \in Callers : ssh.pc[c] = "idle") => ssh.open = {}

C27_Witness ==
    \E c \in Callers, d \in Callers :
      /\ c # d
      /\ ssh.pc[c] = "idle" /\ ssh.ret[c].done /\ ssh.ret[c].status # 0
      /\ ssh.pc[d] = "idle" /\ ssh.ret[d].done /\ ssh.ret[d].out # ""
      /\ ssh.made = MaxCommands
      /\ ssh.open = {}

DescribeOps == {"GetImageDetail", "GetSnapshot", "GetVolumeDetail"}

\* C28: GetImageDetail, GetSnapshot and GetVolumeDetail return a detail
\* exactly when the request succeeded with one match, the detail being that
\* match; with no match or several the call fails and returns no detail.
C28_DescribeCardinality ==
    fn.op \in DescribeOps =>
      /\ fn.detail.ok <=> (~fn.queryErr /\ Len(fn.matches) = 1)
      /\ fn.detail.ok => (fn.detail.item = fn.matches[1] /\ fn.detail.err = "")
      /\ ~fn.detail.ok => (fn.detail.item = NoItem /\ fn.detail.err # "")

C28_Witness ==
    /\ fn.op = "GetVolumeDetail"
    /\ ~fn.queryErr
    /\ Len(fn.matches) = 2
    /\ fn.matches[1].Id = fn.id
    /\ ~fn.detail.ok

\* C29: download calls DownloadImage once, with the bucket the archive command
\* was given, the archive name of the archive command's output path, and the
\* destination localPath/archiveName; unless the file cannot be created, what
\* the destination held before is replaced by what was read from the object.
C29_DownloadArguments ==
    /\ Len(h.download) <= 1
    /\ Len(SelectSeq(h.ops, LAMBDA op : op = "DownloadImage")) = Len(h.download)
    /\ Len(h.download) = 1 =>
         LET d == h.download[1]
         IN  /\ Len(h.archive) = 1
             /\ d.bucketName = h.archive[1].bucketName
             /\ h.archive[1].outputPath = "/data/" \o d.archiveName
             /\ d.outputFile = "/local/" \o d.archiveName
             /\ ~d.createErr =>
                  /\ d.after.exists
                  /\ d.after.data \in {Object("bucket-x", d.archiveName),
                                       "part of " \o Object("bucket-x", d.archiveName)}
             /\ ~d.err => d.after.data = Object("bucket-x", d.archiveName)
             /\ d.createErr => (d.err /\ d.after = d.before)
    /\ (h.result = "ok" /\ h.phases # <<>>) => Len(h.download) = 1

C29_Witness ==
    /\ h.result = "ok"
    /\ Len(h.download) = 1
    /\ h.download[1].before.exists
    /\ h.download[1].after.data = "s3://bucket-x/ami-src-raw.dd.gz"

\* C30: generate uses the snapshot and the declared size of the first mapping
\* whatever the number of mappings, creates and attaches at most one volume,
\* and for an image without mappings fails before any snapshot, volume or
\* attach operation.
C30_FirstMappingOnly ==
    /\ Len(h.getSnapshot) <= 1
    /\ \A k \in 1..Len(h.getSnapshot) : h.getSnapshot[k] = MappingSnapshot(1)
    /\ Len(h.createVolume) <= 1
    /\ \A k \in 1..Len(h.createVolume) :
         /\ h.createVolume[k].snapshotId = MappingSnapshot(1)
         /\ h.createVolume[k].size = MappingSize(1)
    /\ Len(h.attach) <= 1
    /\ (ec2.mappings = 0 /\ \E k \in 1..Len(h.phases) : h.phases[k] = "generate") =>
         /\ ~Issued("GetSnapshot")
         /\ ~Issued("CreateVolume")
         /\ ~Issued("GetAvailableDeviceName")
         /\ ~Issued("AttachVolume")
         /\ ~Issued("hashr-archive")
         /\ pc # "generate" => h.errPhase = "generate"
         /\ pc = "idle" => h.result = "error"

C30_Witness ==
    /\ ec2.mappings = MaxMappings
    /\ h.getSnapshot = <<"snap-1">>
    /\ Len(h.createVolume) = 1
    /\ h.createVolume[1].size = 8
    /\ Len(h.attach) = 1
    /\ Len(h.archive) = 1
    /\ h.result = "ok"

\* C31: CreateVolume returns a volume identifier only when the last poll of its
\* wait saw the new volume Available; a rejected request and an exhausted wait
\* return an error and the empty identifier.
C31_CreateVolumeAvailable ==
    (fn.op = "CreateVolume" /\ fn.ret.done) =>
      /\ fn.ret.volumeId # "" =>
           /\ fn.ret.err = ""
           /\ fn.ret.volumeId = fn.volume.id
           /\ fn.observed # <<>>
           /\ fn.observed[Len(fn.observed)] = "available"
      /\ fn.volume.id = "" => (fn.ret.volumeId = "" /\ fn.ret.err # "")
      /\ (\A k \in 1..Len(fn.observed) : fn.observed[k] # "available") =>
           (fn.ret.volumeId = "" /\ fn.ret.err # "")
      /\ fn.ret.volumeId = "" <=> fn.ret.err # ""

C31_Witness ==
    /\ fn.op = "CreateVolume"
    /\ fn.ret.done
    /\ fn.ret.volumeId = "vol-1"
    /\ fn.observed = <<"creating", "available">>

\* C32: in one run GetAvailableDeviceName is called at most once, and exactly
\* once in a run that reaches cleanup; DetachVolume is passed the device, host
\* and volume that AttachVolume was passed in the run's generate, DeleteVolume
\* that volume, and DeregisterImage the identifier the run's CopyImage returned.
C32_ReleaseWhatWasAcquired ==
    /\ Len(SelectSeq(h.ops, LAMBDA op : op = "GetAvailableDeviceName")) <= 1
    /\ Len(h.detach) <= 1 /\ Len(h.deleteVolume) <= 1 /\ Len(h.deregister) <= 1
    /\ Len(h.detach) = 1 =>
         /\ Issued("GetAvailableDeviceName")
         /\ Len(h.attach) = 1
         /\ h.detach[1] = h.attach[1]
    /\ Len(h.deleteVolume) = 1 =>
         (Len(h.attach) = 1 /\ h.deleteVolume[1] = h.attach[1].volumeId)
    /\ Len(h.deregister) = 1 =>
         (h.copied # "" /\ h.deregister[1] = h.copied)

\* C33: cleanup issues DeleteVolume only for a volume this run's CreateVolume
\* made; a volume that was already bound to the snapshot and was reused by
\* generate is never deleted.
C33_DeleteOnlyCreated ==
    \A k \in 1..Len(h.deleteVolume) :
      /\ ec2.snapshotVolume = "vol-ffffffff"
      /\ Len(h.createVolume) = 1
      /\ h.deleteVolume[k] # ec2.snapshotVolume

\* The descriptor a discovered source reaches through its sourceImage.
DescriptorOf(source) == repos.scan.cells[source.sourceImage]

\* C34: after DiscoverRepo has returned, the descriptor of every source is the
\* descriptor of the source's own image, and distinct sources have distinct
\* descriptors.
C34_OwnDescriptor ==
    (repos.scan.ret.done /\ repos.scan.ret.err = "") =>
      /\ \A k \in 1..Len(repos.scan.sources) :
           DescriptorOf(repos.scan.sources[k]).ImageId = repos.scan.sources[k].sourceImageId
      /\ \A k \in 1..Len(repos.scan.sources) : \A j \in 1..Len(repos.scan.sources) :
           k # j => DescriptorOf(repos.scan.sources[k]) # DescriptorOf(repos.scan.sources[j])

\* Whether an image's name or description contains osname, letter case aside.
Matching(image, osname) ==
    \/ ~image.Name.nil /\ Contains(ToLower(image.Name.chars), ToLower(osname))
    \/ ~image.Description.nil
         /\ Contains(ToLower(image.Description.chars), ToLower(osname))

C35_RevisionsAgree ==
    (fn.op = "copy" /\ fn.earlier.pc = "done" /\ fn.later.pc = "done") =>
      \/ /\ fn.earlier.ret = "ok" /\ fn.later.ret = "ok"
         /\ fn.earlier.aImageId = fn.later.aImageId
         /\ fn.earlier.aImage = "available" /\ fn.later.aImage = "available"
      \/ fn.earlier.ret = "error" /\ fn.later.ret = "error"

\* C36: when DownloadImage returns an error the destination is as it was
\* before the call: an existing file keeps its content and no partly written
\* archive is left.
C36_FailedDownloadKeepsFile ==
    \A k \in 1..Len(h.download) :
      h.download[k].err => h.download[k].after = h.download[k].before

====
